---- MODULE Spec2Model ----
(***************************************************************************)
(* Construction of a SimplicialComplex (docs/strat-repr/token-space/       *)
(* sfno_ud.py): boundary matrices, Hodge Laplacians, eigendecompositions   *)
(* and Betti numbers, for complexes given directly, derived by from_graph  *)
(* or derived by from_sequence.                                            *)
(*                                                                         *)
(* Python lists are 0-based; the sequences here are 1-based, so level k is *)
(* simplices[k+1], B_k is boundary_matrices[k+1], L_k is                   *)
(* hodge_laplacians[k+1].  All matrix entries the code produces are small  *)
(* integers, which float32 holds exactly, so matrices are integer valued.  *)
(*                                                                         *)
(* The eigensolvers are library code.  A spectrum of the symmetric PSD     *)
(* matrix L is represented by ordinals: every zero eigenvalue is 0 and the *)
(* positive eigenvalues are 1, 2, .. in ascending order (there are rank(L) *)
(* of them).  An eigenvector column is represented by the position of its  *)
(* eigenpair in the exact ascending spectrum.  |lambda| < tol is           *)
(* "lambda is the ordinal 0".                                              *)
(***************************************************************************)
EXTENDS Integers, Sequences, FiniteSets, TLC

VARIABLES
    pc,                  \* position inside SimplicialComplex.__init__
    call,                \* the entry point that was called, with its arguments
    error,               \* exception that ended construction, or "none"
    simplices,           \* self.simplices
    max_k,               \* self.max_k
    max_modes,           \* self.max_modes
    n_simplices,         \* self.n_simplices
    boundary_matrices,   \* self.boundary_matrices
    hodge_laplacians,    \* self.hodge_laplacians
    eigendecompositions, \* self.eigendecompositions
    solver_tier,         \* per level: which solver produced the eigenpairs
    solver_calls,        \* per level: the solver calls made, with outcomes
    solver_order,        \* the order eigsh returned its eigenpairs in
    betti_numbers,       \* self.betti_numbers
    op,                  \* a direct call of one operator's forward: its
                         \* module, its arguments and what it returned
    model,               \* the SFNO_UD the forward calls run on
    rng_state,           \* state of torch's process-wide random generator
    threads              \* per caller: its call of model(X, complex)

vars == <<pc, call, error, simplices, max_k, max_modes, n_simplices,
          boundary_matrices, hodge_laplacians, eigendecompositions,
          solver_tier, solver_calls, solver_order, betti_numbers, op, model,
          rng_state, threads>>

(* What the forward passes work on, apart from the complex *)
fwd_vars == <<op, model, rng_state, threads>>

(* The object under construction *)
complex_vars == <<pc, call, error, simplices, max_k, max_modes, n_simplices,
                  boundary_matrices, hodge_laplacians, eigendecompositions,
                  solver_tier, solver_calls, solver_order, betti_numbers>>

----------------------------------------------------------------------------
(* Bounds of the model *)

MaxNodes == 3

MaxLength == 4

MaxModes == 2

MaxBatch == 2

MaxSimplices == 3

MaxDim == 2

(* Default of max_spectral_modes *)
DefaultModes == 64

----------------------------------------------------------------------------
(* Tuples and lists *)

Min(a, b) == IF a < b THEN a ELSE b

RECURSIVE SumTo(_, _)
SumTo(f, n) == IF n = 0 THEN 0 ELSE f[n] + SumTo(f, n - 1)

RemoveAt(s, i) == [j \in 1..(Len(s) - 1) |-> IF j < i THEN s[j] ELSE s[j + 1]]

(* sorted(s) on a tuple of vertex indices *)
RECURSIVE Sorted(_)
Sorted(s) ==
    IF Len(s) <= 1 THEN s
    ELSE LET i == CHOOSE a \in 1..Len(s) :
                    \A b \in 1..Len(s) : s[a] < s[b] \/ (s[a] = s[b] /\ a <= b)
         IN  <<s[i]>> \o Sorted(RemoveAt(s, i))

(* lexicographic order on tuples of the same length *)
RECURSIVE LexLess(_, _)
LexLess(a, b) ==
    /\ Len(a) > 0
    /\ Len(b) > 0
    /\ \/ a[1] < b[1]
       \/ a[1] = b[1] /\ LexLess(Tail(a), Tail(b))

(* list(S) for a Python set S of tuples: ascending or descending order *)
RECURSIVE SetToList(_, _)
SetToList(S, descending) ==
    IF S = {} THEN <<>>
    ELSE LET x == CHOOSE a \in S :
                    \A b \in S : a = b \/ (IF descending THEN LexLess(b, a)
                                                         ELSE LexLess(a, b))
         IN  <<x>> \o SetToList(S \ {x}, descending)

----------------------------------------------------------------------------
(* Dense matrices: nr x nc, entries e[i][j]; None is the placeholder B_0 *)

None == [none |-> TRUE, nr |-> 0, nc |-> 0, e |-> <<>>]

Mat(r, c, entries) == [none |-> FALSE, nr |-> r, nc |-> c, e |-> entries]

(* torch.zeros(r, c) *)
Zeros(r, c) == Mat(r, c, [i \in 1..r |-> [j \in 1..c |-> 0]])

(* A.T *)
Transpose(A) ==
    Mat(A.nc, A.nr, [i \in 1..A.nc |-> [j \in 1..A.nr |-> A.e[j][i]]])

(* A @ B *)
MatMul(A, B) ==
    Mat(A.nr, B.nc,
        [i \in 1..A.nr |-> [j \in 1..B.nc |->
            SumTo([t \in 1..A.nc |-> A.e[i][t] * B.e[t][j]], A.nc)]])

(* A += B *)
MatAdd(A, B) ==
    Mat(A.nr, A.nc,
        [i \in 1..A.nr |-> [j \in 1..A.nc |-> A.e[i][j] + B.e[i][j]]])

IsZeroMatrix(A) == \A i \in 1..A.nr : \A j \in 1..A.nc : A.e[i][j] = 0

----------------------------------------------------------------------------
(* _compute_boundary_matrices *)

(* tuple(x for x in sigma if x != v) *)
Face(sigma, v) == SelectSeq(sigma, LAMBDA x : x # v)

(* {tuple(sorted(s)): i for i, s in enumerate(level)}: a later simplex with
   the same sorted tuple overwrites the index of an earlier one *)
SimplexToIdx(level) ==
    [key \in {Sorted(level[i]) : i \in 1..Len(level)} |->
        CHOOSE i \in 1..Len(level) :
            /\ Sorted(level[i]) = key
            /\ \A i2 \in 1..Len(level) : Sorted(level[i2]) = key => i2 <= i]

(* Sign with the alternation lost: the sign of i instead of its parity *)
SignOfIndex(i) == IF i >= 0 THEN 1 ELSE -1

(* (-1) ** i for the 0-based position i *)
Sign(i) == IF i % 2 = 0 THEN 1 ELSE -1

(* Column j of B_k as the dense form of the COO tensor (rows, cols, vals)
   restricted to cols = j; to_dense adds the values of repeated
   coordinates *)
BoundaryColumn(simplex_to_idx, sigma_in, n_rows) ==
    LET sigma == Sorted(sigma_in)
        row(p) == LET face == Face(sigma, sigma[p])
                  IN  IF face \in DOMAIN simplex_to_idx
                      THEN simplex_to_idx[face] ELSE 0
        rows == [p \in 1..Len(sigma) |-> row(p)]
    IN  [i \in 1..n_rows |->
            SumTo([p \in 1..Len(sigma) |->
                      IF rows[p] = i THEN Sign(p - 1) ELSE 0], Len(sigma))]

(* B_k for 1 <= k <= max_k *)
BoundaryMatrix(simp, n, k) ==
    IF n[k + 1] = 0 \/ n[k] = 0
    THEN Zeros(n[k], n[k + 1])
    ELSE LET simplex_to_idx == SimplexToIdx(simp[k])
             columns == [j \in 1..n[k + 1] |->
                           BoundaryColumn(simplex_to_idx, simp[k + 1][j],
                                          n[k])]
         IN  Mat(n[k], n[k + 1],
                 [i \in 1..n[k] |-> [j \in 1..n[k + 1] |-> columns[j][i]]])

(* The list [None, B_1, .., B_max_k, zeros(n_max_k, 0)] *)
ComputeBoundaryMatricesOf(simp, n, mk) ==
    [idx \in 1..(mk + 2) |->
        IF idx = 1 THEN None
        ELSE IF idx = mk + 2 THEN Zeros(n[mk + 1], 0)
        ELSE BoundaryMatrix(simp, n, idx - 1)]

----------------------------------------------------------------------------
(* _compute_hodge_laplacians *)

(* HodgeLaplacian with the term from above skipped one level too early *)
HodgeLaplacianAboveOffByOne(bm, n, mk, k) ==
    LET n_k == n[k + 1]
        B_k == bm[k + 1]
        B_kp1 == bm[k + 2]
        below == IF k > 0 /\ ~B_k.none
                 THEN MatMul(Transpose(B_k), B_k) ELSE Zeros(n_k, n_k)
        above == IF k < mk - 1 /\ ~B_kp1.none
                 THEN MatMul(B_kp1, Transpose(B_kp1)) ELSE Zeros(n_k, n_k)
    IN  IF n_k = 0 THEN Zeros(0, 0)
        ELSE MatAdd(MatAdd(Zeros(n_k, n_k), below), above)

(* HodgeLaplacian with the term from below skipped one level too long *)
HodgeLaplacianBelowOffByOne(bm, n, mk, k) ==
    LET n_k == n[k + 1]
        B_k == bm[k + 1]
        B_kp1 == bm[k + 2]
        below == IF k > 1 /\ ~B_k.none
                 THEN MatMul(Transpose(B_k), B_k) ELSE Zeros(n_k, n_k)
        above == IF k < mk /\ ~B_kp1.none
                 THEN MatMul(B_kp1, Transpose(B_kp1)) ELSE Zeros(n_k, n_k)
    IN  IF n_k = 0 THEN Zeros(0, 0)
        ELSE MatAdd(MatAdd(Zeros(n_k, n_k), below), above)

(* L_k for 0 <= k <= max_k, from the list of boundary matrices *)
HodgeLaplacian(bm, n, mk, k) ==
    LET n_k == n[k + 1]
        B_k == bm[k + 1]
        B_kp1 == bm[k + 2]
        below == IF k > 0 /\ ~B_k.none
                 THEN MatMul(Transpose(B_k), B_k) ELSE Zeros(n_k, n_k)
        above == IF k < mk /\ ~B_kp1.none
                 THEN MatMul(B_kp1, Transpose(B_kp1)) ELSE Zeros(n_k, n_k)
    IN  IF n_k = 0 THEN Zeros(0, 0)
        ELSE MatAdd(MatAdd(Zeros(n_k, n_k), below), above)

ComputeHodgeLaplaciansOf(bm, n, mk) ==
    [idx \in 1..(mk + 1) |-> HodgeLaplacian(bm, n, mk, idx - 1)]

----------------------------------------------------------------------------
(* _compute_eigendecompositions *)

Abs(a) == IF a < 0 THEN -a ELSE a

RECURSIVE Gcd(_, _)
Gcd(a, b) == IF b = 0 THEN Abs(a) ELSE Gcd(Abs(b), Abs(a) % Abs(b))

RECURSIVE RowGcd(_, _)
RowGcd(r, n) == IF n = 0 THEN 0 ELSE Gcd(r[n], RowGcd(r, n - 1))

(* Rank of the integer matrix with the given rows and nc columns, by
   elimination on the first column; a row is divided by the gcd of its
   entries, which does not change the rank *)
RECURSIVE RankRows(_, _)
RankRows(rows, nc) ==
    IF Len(rows) = 0 \/ nc = 0 THEN 0
    ELSE LET piv == {i \in 1..Len(rows) : rows[i][1] # 0}
         IN  IF piv = {}
             THEN RankRows([i \in 1..Len(rows) |-> Tail(rows[i])], nc - 1)
             ELSE LET p == CHOOSE i \in piv : \A j \in piv : i <= j
                      pr == rows[p]
                      elim(r) == [c \in 1..(nc - 1) |->
                                    pr[1] * r[c + 1] - r[1] * pr[c + 1]]
                      norm(r) == LET g == RowGcd(r, nc - 1)
                                 IN  IF g = 0 THEN r
                                     ELSE [c \in 1..(nc - 1) |-> r[c] \div g]
                      rest == [i \in 1..(Len(rows) - 1) |->
                                 norm(elim(rows[IF i < p THEN i ELSE i + 1]))]
                  IN  1 + RankRows(rest, nc - 1)

Rank(A) == RankRows(A.e, A.nc)

(* The exact ascending spectrum of the symmetric PSD matrix L, as ordinals:
   dim ker(L) zeros, then the positive eigenvalues 1 .. rank(L) *)
Spectrum(L) ==
    LET nullity == L.nr - Rank(L)
    IN  [i \in 1..L.nr |-> IF i <= nullity THEN 0 ELSE i - nullity]

(* np.linalg.eigh(L): all eigenpairs, ascending *)
Eigh(L) == [vals |-> Spectrum(L), vecs |-> [i \in 1..L.nr |-> i]]

(* Eigsh returning the smallest eigenvalue k times over *)
EigshRepeatsSmallest(L, k) ==
    [vals |-> [i \in 1..k |-> Spectrum(L)[1]], vecs |-> [i \in 1..k |-> 1]]

(* eigsh(L, k=k, which='SM') when it converges: the k smallest eigenpairs *)
Eigsh(L, k) ==
    [vals |-> SubSeq(Spectrum(L), 1, k), vecs |-> [i \in 1..k |-> i]]

(* eigsh raises for k <= 0; otherwise it may fail to converge within
   maxiter.  Callable only for n_modes < n_k - 1 *)
EigshCalled(L, M) == L.nr # 0 /\ Min(M, L.nr) < L.nr - 1

EigshMustFail(L, M) == Min(M, L.nr) <= 0

(* The orders a solver may hand its eigenpairs back in.  scipy's eigsh
   documents no order for which='SM'; np.linalg.eigh documents ascending
   order *)
SolverOrders == {"ascending", "descending"}

(* The eigenpairs a solver computed, in the order it returns them *)
ReturnedAs(pairs, order) ==
    IF order = "descending"
    THEN [vals |-> [i \in 1..Len(pairs.vals) |->
                       pairs.vals[Len(pairs.vals) + 1 - i]],
          vecs |-> [i \in 1..Len(pairs.vecs) |->
                       pairs.vecs[Len(pairs.vecs) + 1 - i]]]
    ELSE pairs

(* np.argsort(vals), stable: 1-based positions in ascending order of value *)
RECURSIVE ArgsortFrom(_, _)
ArgsortFrom(vals, left) ==
    IF left = {} THEN <<>>
    ELSE LET i == CHOOSE a \in left :
                    \A b \in left : vals[a] < vals[b]
                                      \/ (vals[a] = vals[b] /\ a <= b)
         IN  <<i>> \o ArgsortFrom(vals, left \ {i})

(* The positions left as they are: nothing is sorted *)
ArgsortKeepsOrder(vals) == [i \in 1..Len(vals) |-> i]

Argsort(vals) == ArgsortFrom(vals, 1..Len(vals))

(* Which solver serves the level *)
SolverTier(L, M, eigsh_fails) ==
    IF L.nr = 0 THEN "empty"
    ELSE IF EigshCalled(L, M)
         THEN (IF eigsh_fails THEN "fallback" ELSE "eigsh")
         ELSE "dense"

(* (Lambda_k, U_k) of one level: eigenvalues, and U_k as its row count and
   the eigenpair each column belongs to, for the orders the two solvers
   return their eigenpairs in.  The output of the dense solver is cut to
   n_modes in the except handler, before the sort *)
Eigendecomposition(L, M, eigsh_fails, eigsh_order, eigh_order) ==
    LET n_k == L.nr
        n_modes == Min(M, n_k)
        full == ReturnedAs(Eigh(L), eigh_order)
        raw == IF n_modes < n_k - 1
               THEN IF eigsh_fails
                    THEN [vals |-> SubSeq(full.vals, 1, n_modes),
                          vecs |-> SubSeq(full.vecs, 1, n_modes)]
                    ELSE ReturnedAs(Eigsh(L, n_modes), eigsh_order)
               ELSE full
        idx == Argsort(raw.vals)
    IN  IF n_k = 0
        THEN [Lambda |-> <<>>, U |-> <<>>, U_rows |-> 0]
        ELSE [Lambda |-> [i \in 1..Len(idx) |-> raw.vals[idx[i]]],
              U |-> [i \in 1..Len(idx) |-> raw.vecs[idx[i]]],
              U_rows |-> n_k]

(* np.linalg.eigh runs at the level: in the else branch, or in the except
   handler after eigsh raised *)
EighCalled(L, M, eigsh_fails) ==
    L.nr # 0 /\ (EigshCalled(L, M) => eigsh_fails)

(* SolverCalls with a failed eigh called a second time *)
SolverCallsRetrying(L, M, eigsh_fails, eigh_fails) ==
    (IF EigshCalled(L, M)
     THEN <<[solver |-> "eigsh", ok |-> ~eigsh_fails]>> ELSE <<>>)
    \o (IF EighCalled(L, M, eigsh_fails)
        THEN (IF eigh_fails
              THEN <<[solver |-> "eigh", ok |-> FALSE],
                     [solver |-> "eigh", ok |-> TRUE]>>
              ELSE <<[solver |-> "eigh", ok |-> TRUE]>>)
        ELSE <<>>)

(* The solver calls made for one level, in order, each with its outcome *)
SolverCalls(L, M, eigsh_fails, eigh_fails) ==
    (IF EigshCalled(L, M)
     THEN <<[solver |-> "eigsh", ok |-> ~eigsh_fails]>> ELSE <<>>)
    \o (IF EighCalled(L, M, eigsh_fails)
        THEN <<[solver |-> "eigh", ok |-> ~eigh_fails]>> ELSE <<>>)

(* Raised with the except handler guarded by a handler of its own: only a
   failure of eigh in the else branch leaves the loop body *)
RaisedOutsideHandler(calls) ==
    /\ Len(calls) = 1
    /\ calls[1].solver = "eigh"
    /\ ~calls[1].ok

(* An exception leaves the loop body: the bare except catches what the try
   body raises (eigsh); a failure of eigh, in the handler or in the else
   branch, propagates *)
Raised(calls) ==
    /\ Len(calls) > 0
    /\ calls[Len(calls)].solver = "eigh"
    /\ ~calls[Len(calls)].ok

----------------------------------------------------------------------------
(* _compute_betti_numbers *)

(* BettiNumber with the comparison reversed: counts the eigenvalues that
   are not below the tolerance *)
BettiNumberAboveTol(Lambda) ==
    IF Len(Lambda) = 0 THEN 0
    ELSE Cardinality({i \in 1..Len(Lambda) : Lambda[i] # 0})

(* int((Lambda_k.abs() < tol).sum()), 0 for an empty Lambda_k *)
BettiNumber(Lambda) ==
    IF Len(Lambda) = 0 THEN 0
    ELSE Cardinality({i \in 1..Len(Lambda) : Lambda[i] = 0})

----------------------------------------------------------------------------
(* from_graph and from_sequence *)

(* [(i,) for i in range(n)] *)
VertexLevel(n) == [i \in 1..n |-> <<i - 1>>]

(* from_graph with a list in place of edges_set: one edge per column of
   edge_index, repeated and self-loop columns included *)
FromGraphSimplicesRepeated(edge_index, num_nodes, include_triangles, descending) ==
    LET vertices == VertexLevel(num_nodes)
        edges == [i \in 1..Len(edge_index) |-> Sorted(edge_index[i])]
    IN  IF include_triangles
        THEN <<vertices, edges, <<>>>>
        ELSE <<vertices, edges>>

(* The simplices list from_graph passes to the constructor.  edge_index is
   the list of its columns (u, v); descending picks the iteration order of
   the two Python sets *)
FromGraphSimplices(edge_index, num_nodes, include_triangles, descending) ==
    LET vertices == VertexLevel(num_nodes)
        edges_set == {Sorted(edge_index[i]) :
                        i \in {c \in 1..Len(edge_index) :
                                 edge_index[c][1] # edge_index[c][2]}}
        edges == SetToList(edges_set, descending)
        adj == [i \in 0..(num_nodes - 1) |->
                  {e[2] : e \in {d \in edges_set : d[1] = i}}
                    \cup {e[1] : e \in {d \in edges_set : d[2] = i}}]
        triangles == UNION {UNION {{<<u, v, w>> :
                                      w \in {x \in adj[u] \cap adj[v] :
                                               u < v /\ v < x}} :
                                   v \in adj[u]} :
                            u \in 0..(num_nodes - 1)}
    IN  IF include_triangles
        THEN <<vertices, edges, SetToList(triangles, descending)>>
        ELSE <<vertices, edges>>

(* The simplices list from_sequence passes to the constructor *)
FromSequenceSimplices(length, window_size) ==
    LET vertices == VertexLevel(length)
        edges == [i \in 1..(length - 1) |-> <<i - 1, i>>]
        triangles == [i \in 1..(length - 2) |-> <<i - 1, i, i + 1>>]
    IN  IF window_size >= 3 /\ length >= 3
        THEN <<vertices, edges, triangles>>
        ELSE <<vertices, edges>>

----------------------------------------------------------------------------
(* Inputs *)

Pairs(n) == {p \in (0..(n - 1)) \X (0..(n - 1)) : p[1] < p[2]}

Triples(n) == {t \in (0..(n - 1)) \X (0..(n - 1)) \X (0..(n - 1)) :
                 t[1] < t[2] /\ t[2] < t[3]}

Reverse(s) == [i \in 1..Len(s) |-> s[Len(s) + 1 - i]]

(* max_spectral_modes: a small count or the default *)
ModeCounts == (0..MaxModes) \cup {DefaultModes}

(* Scenario inputs of the specification *)
ScenarioA == << <<<<0>>, <<1>>, <<2>>>>,
                <<<<0, 1>>, <<1, 2>>, <<0, 2>>>>,
                <<<<0, 1, 2>>>> >>

ScenarioB == << <<<<0>>, <<1>>, <<2>>, <<3>>>>,
                <<<<0, 1>>, <<1, 2>>, <<2, 3>>, <<0, 3>>>> >>

ScenarioC == << <<<<0>>, <<1>>>>, <<>> >>

(* Lists of levels over the vertices 0 .. MaxNodes-1: a vertex level, then
   any set of edges, then any set of triangles; faces may be missing *)
PlainInputs ==
    {<<>>}
    \cup {<<VertexLevel(n)>> : n \in 0..MaxNodes}
    \cup {<<VertexLevel(n), SetToList(E, FALSE)>> :
            n \in 0..MaxNodes, E \in SUBSET Pairs(MaxNodes)}
    \cup {<<VertexLevel(n), SetToList(E, FALSE), SetToList(T, FALSE)>> :
            n \in 0..MaxNodes, E \in SUBSET Pairs(MaxNodes),
            T \in SUBSET Triples(MaxNodes)}

(* The input with the first simplex of level k (0-based) repeated at the
   end of the level, vertices in reverse order *)
WithDuplicate(s, k) ==
    [s EXCEPT ![k + 1] = Append(s[k + 1], Reverse(s[k + 1][1]))]

DuplicateInputs ==
    {WithDuplicate(s, k) :
        <<s, k>> \in {x \in PlainInputs \X (0..1) :
                        /\ Len(x[1]) = 2
                        /\ Len(x[1][x[2] + 1]) > 0}}

DirectInputs ==
    PlainInputs \cup DuplicateInputs \cup {ScenarioA, ScenarioB, ScenarioC}

(* edge_index lists for an edge set S: each edge once, each edge in both
   directions, or each edge once followed by a self-loop *)
EdgeIndexes(n) ==
    UNION {LET fwd == SetToList(S, FALSE)
               bwd == [i \in 1..Len(fwd) |-> Reverse(fwd[i])]
           IN  {fwd, bwd, fwd \o bwd}
                 \cup (IF n > 0 THEN {fwd \o <<<<0, 0>>>>} ELSE {}) :
           S \in SUBSET Pairs(n)}

WindowSizes == 2..3

----------------------------------------------------------------------------
(* The state machine *)

Init ==
    /\ pc = "idle"
    /\ call = [kind |-> "none"]
    /\ error = "none"
    /\ simplices = <<>>
    /\ max_k = -1
    /\ max_modes = 0
    /\ n_simplices = <<>>
    /\ boundary_matrices = <<>>
    /\ hodge_laplacians = <<>>
    /\ eigendecompositions = <<>>
    /\ solver_tier = <<>>
    /\ solver_calls = <<>>
    /\ solver_order = "none"
    /\ betti_numbers = <<>>
    /\ op = [kind |-> "none"]
    /\ model = <<>>
    /\ rng_state = 0
    /\ threads = <<>>

(* __init__, up to the first helper call *)
Begin(c, s, M) ==
    /\ pc' = "boundaries"
    /\ call' = c
    /\ simplices' = s
    /\ max_k' = Len(s) - 1
    /\ max_modes' = M
    /\ n_simplices' = [k \in 1..Len(s) |-> Len(s[k])]
    /\ UNCHANGED <<error, boundary_matrices, hodge_laplacians,
                   eigendecompositions, solver_tier, solver_calls, solver_order,
                   betti_numbers>>
    /\ UNCHANGED fwd_vars

(* SimplicialComplex(simplices, max_spectral_modes=M) *)
New ==
    /\ pc = "idle"
    /\ \E s \in DirectInputs, M \in ModeCounts :
          Begin([kind |-> "direct"], s, M)

(* SimplicialComplex.from_graph(edge_index, num_nodes, include_triangles,
   max_spectral_modes=M) *)
FromGraph ==
    /\ pc = "idle"
    /\ \E num_nodes \in 0..MaxNodes, include_triangles \in BOOLEAN,
       descending \in BOOLEAN, M \in ModeCounts :
        \E edge_index \in EdgeIndexes(num_nodes) :
            Begin([kind |-> "from_graph", edge_index |-> edge_index,
                   num_nodes |-> num_nodes,
                   include_triangles |-> include_triangles],
                  FromGraphSimplices(edge_index, num_nodes,
                                     include_triangles, descending),
                  M)

(* SimplicialComplex.from_sequence(length, window_size,
   max_spectral_modes=M) *)
FromSequence ==
    /\ pc = "idle"
    /\ \E length \in 0..MaxLength, window_size \in WindowSizes,
       M \in ModeCounts :
        Begin([kind |-> "from_sequence", length |-> length,
               window_size |-> window_size],
              FromSequenceSimplices(length, window_size),
              M)

(* self.boundary_matrices = self._compute_boundary_matrices(); with an
   empty simplices list n_simplices[max_k] raises IndexError *)
ComputeBoundaryMatrices ==
    /\ pc = "boundaries"
    /\ IF max_k < 0
       THEN /\ pc' = "failed"
            /\ error' = "IndexError"
            /\ UNCHANGED boundary_matrices
       ELSE /\ pc' = "laplacians"
            /\ boundary_matrices' =
                   ComputeBoundaryMatricesOf(simplices, n_simplices, max_k)
            /\ UNCHANGED error
    /\ UNCHANGED <<call, simplices, max_k, max_modes, n_simplices,
                   hodge_laplacians, eigendecompositions, solver_tier,
                   solver_calls, solver_order, betti_numbers>>
    /\ UNCHANGED fwd_vars

(* The constructor returning as soon as the Laplacians are assigned *)
ComputeHodgeLaplaciansThenReturn ==
    /\ pc = "laplacians"
    /\ pc' = "ready"
    /\ hodge_laplacians' =
           ComputeHodgeLaplaciansOf(boundary_matrices, n_simplices, max_k)
    /\ UNCHANGED <<call, error, simplices, max_k, max_modes, n_simplices,
                   boundary_matrices, eigendecompositions, solver_tier,
                   solver_calls, solver_order, betti_numbers>>
    /\ UNCHANGED fwd_vars

(* self.hodge_laplacians = self._compute_hodge_laplacians() *)
ComputeHodgeLaplacians ==
    /\ pc = "laplacians"
    /\ pc' = "eigen"
    /\ hodge_laplacians' =
           ComputeHodgeLaplaciansOf(boundary_matrices, n_simplices, max_k)
    /\ UNCHANGED <<call, error, simplices, max_k, max_modes, n_simplices,
                   boundary_matrices, eigendecompositions, solver_tier,
                   solver_calls, solver_order, betti_numbers>>
    /\ UNCHANGED fwd_vars

(* self.eigendecompositions = self._compute_eigendecompositions(); at each
   level where eigsh is called it converges or raises, where it converges it
   returns its eigenpairs in some order (the same at every level, ascending
   when no call converged), and np.linalg.eigh may raise LinAlgError at one
   level (fail_at, 0 for none).  An exception
   that leaves the loop ends the constructor with self.eigendecompositions
   unassigned *)
ComputeEigendecompositions ==
    /\ pc = "eigen"
    /\ \E eigsh_fails \in [1..(max_k + 1) -> BOOLEAN],
          order \in SolverOrders :
        /\ solver_order' = order
        /\ order # "ascending" =>
              \E k \in 1..(max_k + 1) :
                  /\ EigshCalled(hodge_laplacians[k], max_modes)
                  /\ ~eigsh_fails[k]
        /\ \A k \in 1..(max_k + 1) :
              LET called == EigshCalled(hodge_laplacians[k], max_modes)
              IN  /\ eigsh_fails[k] => called
                  /\ (called /\ EigshMustFail(hodge_laplacians[k], max_modes))
                        => eigsh_fails[k]
        /\ LET decompositions ==
                   [k \in 1..(max_k + 1) |->
                       Eigendecomposition(hodge_laplacians[k], max_modes,
                                          eigsh_fails[k], order,
                                          "ascending")]
               tiers == [k \in 1..(max_k + 1) |->
                           SolverTier(hodge_laplacians[k], max_modes,
                                      eigsh_fails[k])]
           IN  \E fail_at \in 0..(max_k + 1) :
                 /\ fail_at # 0 =>
                       EighCalled(hodge_laplacians[fail_at], max_modes,
                                  eigsh_fails[fail_at])
                 /\ LET made == [k \in 1..(max_k + 1) |->
                                   SolverCalls(hodge_laplacians[k], max_modes,
                                               eigsh_fails[k], k = fail_at)]
                        reached(k) == \A j \in 1..(k - 1) : ~Raised(made[j])
                        calls == [k \in 1..(max_k + 1) |->
                                    IF reached(k) THEN made[k] ELSE <<>>]
                    IN  /\ solver_calls' = calls
                        /\ IF \E k \in 1..(max_k + 1) : Raised(calls[k])
                           THEN /\ pc' = "failed"
                                /\ error' = "LinAlgError"
                                /\ UNCHANGED <<eigendecompositions,
                                               solver_tier>>
                           ELSE /\ pc' = "betti"
                                /\ eigendecompositions' = decompositions
                                /\ solver_tier' = tiers
                                /\ UNCHANGED error
    /\ UNCHANGED <<call, simplices, max_k, max_modes, n_simplices,
                   boundary_matrices, hodge_laplacians, betti_numbers>>
    /\ UNCHANGED fwd_vars

(* self.betti_numbers = self._compute_betti_numbers(); the constructor
   returns *)
ComputeBettiNumbers ==
    /\ pc = "betti"
    /\ pc' = "ready"
    /\ betti_numbers' =
           [k \in 1..(max_k + 1) |->
               BettiNumber(eigendecompositions[k].Lambda)]
    /\ UNCHANGED <<call, error, simplices, max_k, max_modes, n_simplices,
                   boundary_matrices, hodge_laplacians, eigendecompositions,
                   solver_tier, solver_calls,
                   solver_order>>
    /\ UNCHANGED fwd_vars

Next ==
    \/ New
    \/ FromGraph
    \/ FromSequence
    \/ ComputeBoundaryMatrices
    \/ ComputeHodgeLaplacians
    \/ ComputeEigendecompositions
    \/ ComputeBettiNumbers

Spec == Init /\ [][Next]_vars

----------------------------------------------------------------------------
(* The treatment of one level in _compute_eigendecompositions, on its own:
   what lines 195-226 store for a Laplacian whichever order the solver
   called hands its eigenpairs back in *)

(* The complexes whose Laplacians are decomposed *)
SolverComplexes ==
    {FromSequenceSimplices(length, w) :
        length \in 1..MaxLength, w \in WindowSizes}
        \cup {ScenarioA, ScenarioB, ScenarioC}

(* self.hodge_laplacians of those complexes, level by level *)
SolverLaplacians ==
    UNION {LET n == [k \in 1..Len(s) |-> Len(s[k])]
               bm == ComputeBoundaryMatricesOf(s, n, Len(s) - 1)
               hl == ComputeHodgeLaplaciansOf(bm, n, Len(s) - 1)
           IN  {hl[k] : k \in 1..Len(hl)} :
           s \in SolverComplexes}

(* One pass of the loop body for the Laplacian L with max_modes = M *)
DecomposeLevel ==
    /\ op.kind = "none"
    /\ \E L \in SolverLaplacians, M \in ModeCounts, eigsh_fails \in BOOLEAN,
          eigsh_order \in SolverOrders, eigh_order \in SolverOrders :
        /\ eigsh_fails => EigshCalled(L, M)
        /\ (EigshCalled(L, M) /\ EigshMustFail(L, M)) => eigsh_fails
        /\ op' = [kind |-> "eigendecomposition",
                  L |-> L,
                  M |-> M,
                  tier |-> SolverTier(L, M, eigsh_fails),
                  eigsh_order |-> eigsh_order,
                  eigh_order |-> eigh_order,
                  result |-> Eigendecomposition(L, M, eigsh_fails,
                                                eigsh_order, eigh_order)]
    /\ UNCHANGED <<complex_vars, model, rng_state, threads>>

NextSolvers == DecomposeLevel

(* The loop body of _compute_eigendecompositions with solvers that return
   their eigenpairs in any order *)
SpecSolvers == Init /\ [][NextSolvers]_vars

----------------------------------------------------------------------------
(* Construction with _compute_eigendecompositions taken one solver step at
   a time: the loop over the levels, the iterations of eigsh up to its cap,
   the except handler and np.linalg.eigh.  op holds the loop's locals *)

(* The iteration cap eigsh is called with (maxiter=1000), scaled down *)
MaxIter == 3

(* The level the loop is at, its Laplacian, and the locals with the
   eigenpairs of the level appended *)
LoopLevel == Len(op.decompositions) + 1

LoopLaplacian == hodge_laplacians[LoopLevel]

Appended(pairs, tier, calls) ==
    [op EXCEPT !.stage = "level",
               !.iter = 0,
               !.eigsh_failed = FALSE,
               !.decompositions = Append(@, pairs),
               !.tiers = Append(@, tier),
               !.calls = Append(@, calls)]

(* SimplicialComplex(simplices, max_spectral_modes=M), for the complexes of
   from_sequence, the scenario complexes and the empty list *)
Construct ==
    /\ pc = "idle"
    /\ \E s \in SolverComplexes \cup {<<>>}, M \in ModeCounts :
          Begin([kind |-> "direct"], s, M)

(* decompositions = [] *)
EnterLoop ==
    /\ pc = "eigen"
    /\ op.kind = "none"
    /\ op' = [kind |-> "decompose", stage |-> "level", iter |-> 0,
              eigsh_failed |-> FALSE, order |-> "ascending",
              decompositions |-> <<>>, tiers |-> <<>>, calls |-> <<>>]
    /\ UNCHANGED <<complex_vars, model, rng_state, threads>>

(* for k, L_k in enumerate(self.hodge_laplacians): an empty level is
   appended at once, another level goes to eigsh or to eigh *)
NextLevel ==
    /\ pc = "eigen"
    /\ op.kind = "decompose"
    /\ op.stage = "level"
    /\ LoopLevel <= max_k + 1
    /\ op' = IF LoopLaplacian.nr = 0
             THEN Appended(Eigendecomposition(LoopLaplacian, max_modes,
                                              FALSE, "ascending",
                                              "ascending"),
                           "empty", <<>>)
             ELSE IF EigshCalled(LoopLaplacian, max_modes)
                  THEN [op EXCEPT !.stage = "eigsh"]
                  ELSE [op EXCEPT !.stage = "eigh"]
    /\ UNCHANGED <<complex_vars, model, rng_state, threads>>

(* EigshIterate with no cap on the iterations: the count starts again *)
EigshIterateUncapped ==
    /\ pc = "eigen"
    /\ op.kind = "decompose"
    /\ op.stage = "eigsh"
    /\ op' = [op EXCEPT !.iter = (@ + 1) % (MaxIter + 1)]
    /\ UNCHANGED <<complex_vars, model, rng_state, threads>>

(* eigsh(L_np, k=n_modes, which='SM', tol=1e-6, maxiter=1000) inside the
   try: it raises at once for k <= 0, otherwise each iteration converges
   (in some order of the eigenpairs) or goes on, and the iteration at the
   cap raises; whatever it raises the bare except takes to eigh *)
EigshIterate ==
    /\ pc = "eigen"
    /\ op.kind = "decompose"
    /\ op.stage = "eigsh"
    /\ \/ /\ EigshMustFail(LoopLaplacian, max_modes) \/ op.iter >= MaxIter
          /\ op' = [op EXCEPT !.stage = "eigh", !.eigsh_failed = TRUE]
       \/ /\ ~EigshMustFail(LoopLaplacian, max_modes)
          /\ op.iter < MaxIter
          /\ op' = [op EXCEPT !.iter = @ + 1]
       \/ /\ ~EigshMustFail(LoopLaplacian, max_modes)
          /\ op.iter < MaxIter
          /\ \E order \in SolverOrders :
                op' = [Appended(Eigendecomposition(LoopLaplacian, max_modes,
                                                   FALSE, order,
                                                   "ascending"),
                                "eigsh",
                                SolverCalls(LoopLaplacian, max_modes, FALSE,
                                            FALSE))
                         EXCEPT !.order = order]
    /\ UNCHANGED <<complex_vars, model, rng_state, threads>>

(* np.linalg.eigh(L_np), in the except handler or in the else branch: it
   returns, or raises LinAlgError, which ends the constructor *)
EighCall ==
    /\ pc = "eigen"
    /\ op.kind = "decompose"
    /\ op.stage = "eigh"
    /\ \/ /\ pc' = "failed"
          /\ error' = "LinAlgError"
          /\ solver_calls' =
                 [k \in 1..(max_k + 1) |->
                     IF k < LoopLevel THEN op.calls[k]
                     ELSE IF k = LoopLevel
                          THEN SolverCalls(LoopLaplacian, max_modes,
                                           op.eigsh_failed, TRUE)
                          ELSE <<>>]
          /\ op' = [kind |-> "none"]
       \/ /\ op' = Appended(Eigendecomposition(LoopLaplacian, max_modes,
                                               op.eigsh_failed, "ascending",
                                               "ascending"),
                            SolverTier(LoopLaplacian, max_modes,
                                       op.eigsh_failed),
                            SolverCalls(LoopLaplacian, max_modes,
                                        op.eigsh_failed, FALSE))
          /\ UNCHANGED <<pc, error, solver_calls>>
    /\ UNCHANGED <<call, simplices, max_k, max_modes, n_simplices,
                   boundary_matrices, hodge_laplacians, eigendecompositions,
                   solver_tier, solver_order, betti_numbers>>
    /\ UNCHANGED <<model, rng_state, threads>>

(* return decompositions, assigned to self.eigendecompositions *)
ReturnDecompositions ==
    /\ pc = "eigen"
    /\ op.kind = "decompose"
    /\ op.stage = "level"
    /\ LoopLevel > max_k + 1
    /\ pc' = "betti"
    /\ eigendecompositions' = op.decompositions
    /\ solver_tier' = op.tiers
    /\ solver_calls' = op.calls
    /\ solver_order' = op.order
    /\ op' = [kind |-> "none"]
    /\ UNCHANGED <<call, error, simplices, max_k, max_modes, n_simplices,
                   boundary_matrices, hodge_laplacians, betti_numbers>>
    /\ UNCHANGED <<model, rng_state, threads>>

(* The steps of a constructor call that has begun *)
Running ==
    \/ ComputeBoundaryMatrices
    \/ ComputeHodgeLaplacians
    \/ EnterLoop
    \/ NextLevel
    \/ EigshIterate
    \/ EighCall
    \/ ReturnDecompositions
    \/ ComputeBettiNumbers

NextSteps ==
    \/ Construct
    \/ Running

(* A constructor call is one sequential computation: once begun it keeps
   taking its next step *)
SpecSteps == Init /\ [][NextSteps]_vars /\ WF_vars(Running)

----------------------------------------------------------------------------
(* Tensors of the forward passes: [batch, n_simplices, features], integer
   valued.  A parameter that PyTorch initialises at random, and a feature
   tensor a caller passes, is a sample with the right shape *)

(* An Optional[Tensor] argument that was passed as None *)
NoTensor == [none |-> TRUE, shape |-> <<0, 0, 0>>, e |-> <<>>]

T3(b, n, c, entries) == [none |-> FALSE, shape |-> <<b, n, c>>, e |-> entries]

(* torch.zeros_like(X) *)
ZerosLike(X) ==
    T3(X.shape[1], X.shape[2], X.shape[3],
       [x \in 1..X.shape[1] |-> [i \in 1..X.shape[2] |->
           [c \in 1..X.shape[3] |-> 0]]])

(* X.transpose(1, 2) *)
TransposeLast(X) ==
    T3(X.shape[1], X.shape[3], X.shape[2],
       [x \in 1..X.shape[1] |-> [c \in 1..X.shape[3] |->
           [i \in 1..X.shape[2] |-> X.e[x][i][c]]]])

(* A feature tensor with entries in 1..3 *)
PatternTensor(b, n, c, seed) ==
    T3(b, n, c,
       [x \in 1..b |-> [i \in 1..n |-> [ch \in 1..c |->
           1 + ((seed + x + 2 * i + 3 * ch) % 3)]]])

(* A weight or boundary-like matrix with entries in -1..1 *)
PatternMatrix(r, c, seed) ==
    Mat(r, c, [i \in 1..r |-> [j \in 1..c |-> ((seed + i + 2 * j) % 3) - 1]])

(* What a forward returns: a tensor, or the exception it raised *)
Ok(t) == [error |-> "none", out |-> t]

Raise(e) == [error |-> e, out |-> NoTensor]

(* nn.Linear(in, out, bias=False)(X) with weight W of shape [out, in] *)
Linear(W, X) ==
    T3(X.shape[1], X.shape[2], W.nr,
       [x \in 1..X.shape[1] |-> [i \in 1..X.shape[2] |-> [o \in 1..W.nr |->
           SumTo([c \in 1..W.nc |-> X.e[x][i][c] * W.e[o][c]], W.nc)]]])

(* torch.einsum accepts two sizes under one subscript when they are equal or
   one of them is 1, and broadcasts the 1 *)
Broadcastable(a, b) == a = b \/ a = 1 \/ b = 1

BroadcastSize(a, b) == IF a = 1 THEN b ELSE a

At(size, i) == IF size = 1 THEN 1 ELSE i

----------------------------------------------------------------------------
(* BoundaryCoupling *)

(* BoundaryCoupling.__init__: W_down and beta exist only with a level above
   of positive width, W_up and gamma only with a level below of positive
   width.  The gates are initialised to 0.1; tensor values that went through
   a gate are in tenths *)
BoundaryCouplingModule(dim_k, dim_k_minus_1, dim_k_plus_1, has_level_below, has_level_above) ==
    [dim_k |-> dim_k,
     has_below |-> has_level_below,
     has_above |-> has_level_above,
     W_down |-> IF has_level_above /\ dim_k_plus_1 > 0
                THEN PatternMatrix(dim_k, dim_k_plus_1, 1) ELSE None,
     beta |-> 1,
     W_up |-> IF has_level_below /\ dim_k_minus_1 > 0
              THEN PatternMatrix(dim_k, dim_k_minus_1, 2) ELSE None,
     gamma |-> 1]

(* Active without the test on the neighbour's simplex count *)
ActiveWithoutSizeTest(has, X_n, B_n) == has /\ ~X_n.none /\ ~B_n.none

(* The condition of a coupling branch: the level exists, its features and
   its boundary matrix were passed, and it has simplices *)
Active(has, X_n, B_n) ==
    has /\ ~X_n.none /\ ~B_n.none /\ X_n.shape[2] > 0

(* One coupling branch, for the level above (W_down, beta, B_{k+1}) or the
   level below (W_up, gamma, B_k.T): project, contract with
   einsum('ij,bji->bi', Bm, X_proj.transpose(1, 2)), expand over dim_k
   channels and add into output in place *)
CoupleInto(output, W, gate, dim_k, X_n, Bm) ==
    IF W.none THEN Raise("AttributeError")
    ELSE IF X_n.shape[3] # W.nc THEN Raise("RuntimeError")
    ELSE
      LET Xt == TransposeLast(Linear(W, X_n))
          b_n == Xt.shape[1]
          I1 == Bm.nr
          J1 == Bm.nc
          J2 == Xt.shape[2]
          I2 == Xt.shape[3]
          I == BroadcastSize(I1, I2)
          J == BroadcastSize(J1, J2)
          coupled == [x \in 1..b_n |-> [i \in 1..I |->
                        SumTo([j \in 1..J |->
                                 Bm.e[At(I1, i)][At(J1, j)]
                                   * Xt.e[x][At(J2, j)][At(I2, i)]], J)]]
      IN  IF ~(Broadcastable(I1, I2) /\ Broadcastable(J1, J2))
          THEN Raise("RuntimeError")
          ELSE IF ~(/\ b_n \in {output.shape[1], 1}
                    /\ I \in {output.shape[2], 1}
                    /\ dim_k \in {output.shape[3], 1})
          THEN Raise("RuntimeError")
          ELSE Ok(T3(output.shape[1], output.shape[2], output.shape[3],
                     [x \in 1..output.shape[1] |->
                        [i \in 1..output.shape[2] |->
                            [c \in 1..output.shape[3] |->
                                output.e[x][i][c]
                                  + gate * coupled[At(b_n, x)][At(I, i)]]]]))

(* BoundaryCoupling.forward *)
BoundaryCouplingForward(m, X_k, X_k_minus_1, X_k_plus_1, B_k, B_k_plus_1) ==
    LET output == ZerosLike(X_k)
        down == IF Active(m.has_above, X_k_plus_1, B_k_plus_1)
                THEN CoupleInto(output, m.W_down, m.beta, m.dim_k,
                                X_k_plus_1, B_k_plus_1)
                ELSE Ok(output)
    IN  IF down.error # "none" THEN down
        ELSE IF Active(m.has_below, X_k_minus_1, B_k)
        THEN CoupleInto(down.out, m.W_up, m.gamma, m.dim_k,
                        X_k_minus_1, Transpose(B_k))
        ELSE down

(* The feature tensor of a neighbouring level with n simplices, None when
   the level is absent (n = -1) *)
NeighbourTensor(batch, n, dim, seed) ==
    IF n < 0 THEN NoTensor ELSE PatternTensor(batch, n, dim, seed)

(* A boundary matrix of the matching shape, None when a level is absent *)
NeighbourMatrix(r, c, seed) ==
    IF r < 0 \/ c < 0 THEN None ELSE PatternMatrix(r, c, seed)

(* coupling(X_k, X_k_minus_1, X_k_plus_1, B_k, B_k_plus_1) on a
   BoundaryCoupling built for the widths of the tensors passed *)
CallBoundaryCoupling ==
    /\ op.kind = "none"
    /\ \E batch \in 1..MaxBatch, n_k \in 0..MaxSimplices,
          n_below \in -1..MaxSimplices, n_above \in -1..MaxSimplices,
          dim_k \in 1..MaxDim, dim_n \in 0..MaxDim,
          has_below \in BOOLEAN, has_above \in BOOLEAN :
        LET m == BoundaryCouplingModule(dim_k, dim_n, dim_n,
                                        has_below, has_above)
            X_k == PatternTensor(batch, n_k, dim_k, 0)
            X_k_minus_1 == NeighbourTensor(batch, n_below, dim_n, 1)
            X_k_plus_1 == NeighbourTensor(batch, n_above, dim_n, 2)
            B_k == NeighbourMatrix(n_below, n_k, 0)
            B_k_plus_1 == NeighbourMatrix(n_k, n_above, 1)
        IN  op' = [kind |-> "BoundaryCoupling",
                   m |-> m,
                   X_k |-> X_k,
                   X_k_minus_1 |-> X_k_minus_1,
                   X_k_plus_1 |-> X_k_plus_1,
                   B_k |-> B_k,
                   B_k_plus_1 |-> B_k_plus_1,
                   result |-> BoundaryCouplingForward(m, X_k, X_k_minus_1,
                                                      X_k_plus_1, B_k,
                                                      B_k_plus_1)]
    /\ UNCHANGED <<complex_vars, model, rng_state, threads>>

----------------------------------------------------------------------------
(* SpectralConvolution *)

(* The only filter types __init__ accepts *)
FilterTypes == {"mlp", "polynomial"}

(* SpectralConvolution.__init__: spectral_filter is
   [n_modes, in_features, out_features]; poly_coeffs is
   [poly_order, in_features, out_features] with poly_order = 5 *)
SpectralConvolutionModule(in_features, out_features, n_modes, filter_type) ==
    [in_features |-> in_features,
     out_features |-> out_features,
     n_modes |-> n_modes,
     filter_type |-> filter_type,
     spectral_filter |-> IF filter_type = "mlp"
                         THEN PatternTensor(n_modes, in_features,
                                            out_features, 0)
                         ELSE NoTensor,
     poly_coeffs |-> IF filter_type = "polynomial"
                     THEN PatternTensor(2 + 3, in_features, out_features, 0)
                     ELSE NoTensor]

(* SpectralConvolution.forward(X, U, Lambda) with U a matrix and Lambda a
   list.  The result also reports the mode count the call used.  The three
   einsum calls are taken with the subscripts the code gives them:
   'nm,bni->bmi' labels the rows of U_truncated.T (one per mode) n and its
   columns (one per simplex) m.  The entries the polynomial filter produces
   are real-valued Chebyshev terms and are not represented: that branch
   yields the shape only *)
SpectralConvolutionForward(m, X, U, Lambda) ==
    LET n_modes == Min(m.n_modes, U.nc)
        b == X.shape[1]
        n_x == X.shape[2]
        in_x == X.shape[3]
        n_u == U.nr
        used(r) == [error |-> r.error, out |-> r.out, n_modes |-> n_modes]
        (* X_spectral = einsum('nm,bni->bmi', U_truncated.T, X) *)
        N == BroadcastSize(n_modes, n_x)
        X_spectral == [x \in 1..b |-> [mm \in 1..n_u |-> [i \in 1..in_x |->
                          SumTo([n \in 1..N |->
                                   U.e[mm][At(n_modes, n)]
                                     * X.e[x][At(n_x, n)][i]], N)]]]
        (* X_filtered = einsum('mio,bmi->bmo', filter, X_spectral) *)
        filter == m.spectral_filter
        M2 == BroadcastSize(n_modes, n_u)
        I2 == BroadcastSize(m.in_features, in_x)
        X_filtered == [x \in 1..b |-> [mm \in 1..M2 |->
                          [o \in 1..m.out_features |->
                              SumTo([i \in 1..I2 |->
                                       filter.e[At(n_modes, mm)]
                                               [At(m.in_features, i)][o]
                                         * X_spectral[x][At(n_u, mm)]
                                                        [At(in_x, i)]], I2)]]]
        (* Y = einsum('nm,bmo->bno', U_truncated, X_filtered) *)
        M3 == BroadcastSize(n_modes, M2)
        Y == [x \in 1..b |-> [n \in 1..n_u |-> [o \in 1..m.out_features |->
                 SumTo([mm \in 1..M3 |->
                          U.e[n][At(n_modes, mm)]
                            * X_filtered[x][At(M2, mm)][o]], M3)]]]
    IN  IF ~Broadcastable(n_modes, n_x) THEN used(Raise("RuntimeError"))
        ELSE IF m.filter_type # "mlp"
                  /\ Min(n_modes, Len(Lambda)) \notin ({n_modes, 1} \ {0})
        THEN used(Raise("RuntimeError"))
        ELSE IF ~(Broadcastable(n_modes, n_u)
                    /\ Broadcastable(m.in_features, in_x))
        THEN used(Raise("RuntimeError"))
        ELSE IF ~Broadcastable(n_modes, M2) THEN used(Raise("RuntimeError"))
        ELSE used(Ok(T3(b, n_u, m.out_features,
                        IF m.filter_type = "mlp" THEN Y ELSE <<>>)))

(* conv(X, U, Lambda) on a SpectralConvolution, with an eigenvector matrix
   of n_u rows and n_cols columns and as many eigenvalues *)
CallSpectralConvolution ==
    /\ op.kind = "none"
    /\ \E batch \in 1..MaxBatch, n_x \in 0..MaxSimplices,
          n_u \in 0..MaxSimplices, n_cols \in 0..MaxSimplices,
          n_modes \in ModeCounts, in_features \in 1..MaxDim,
          out_features \in 1..MaxDim, in_x \in 1..MaxDim,
          filter_type \in FilterTypes :
        LET m == SpectralConvolutionModule(in_features, out_features,
                                           n_modes, filter_type)
            X == PatternTensor(batch, n_x, in_x, 0)
            U == PatternMatrix(n_u, n_cols, 0)
            Lambda == [i \in 1..n_cols |-> i - 1]
        IN  op' = [kind |-> "SpectralConvolution",
                   m |-> m,
                   X |-> X,
                   U |-> U,
                   Lambda |-> Lambda,
                   result |-> SpectralConvolutionForward(m, X, U, Lambda)]
    /\ UNCHANGED <<complex_vars, model, rng_state, threads>>

NextOps ==
    \/ CallBoundaryCoupling
    \/ CallSpectralConvolution

(* Direct calls of the operators' forward methods *)
SpecOps == Init /\ [][NextOps]_vars

----------------------------------------------------------------------------
(* SFNOLayer.  A feature tensor of the network is its shape and the
   expression that gives its value (LayerNorm and GELU are not integer
   valued); whether a torch call raises depends on shapes only, and is
   decided by running the operators above on a sample of the same shape *)

Sym(shape, val) == [shape |-> shape, val |-> val]

Sample(t) == PatternTensor(t.shape[1], t.shape[2], t.shape[3], 0)

(* The shape of a + b for three-dimensional a and b, <<>> when the shapes do
   not broadcast *)
AddShape(a, b) ==
    IF \A d \in 1..3 : Broadcastable(a[d], b[d])
    THEN [d \in 1..3 |-> BroadcastSize(a[d], b[d])]
    ELSE <<>>

(* nn.Dropout with the module in eval mode as well as in training mode
   draws a mask *)
DropoutIgnoringMode(training, Y, rng) ==
    [out |-> Sym(Y.shape, [op |-> "dropout", mask |-> rng, of |-> Y.val]),
     rng |-> rng + 1]

(* self.dropout(Y_k): the identity in eval mode; in training mode a mask is
   drawn from the process-wide generator, whose state rng advances *)
Dropout(training, Y, rng) ==
    IF training
    THEN [out |-> Sym(Y.shape, [op |-> "dropout", mask |-> rng, of |-> Y.val]),
          rng |-> rng + 1]
    ELSE [out |-> Y, rng |-> rng]

(* No level is passed through: every level is computed *)
SkippedNever(X_k) == FALSE

(* if n_k == 0: the level is appended to outputs as it is *)
Skipped(X_k) == X_k.shape[2] = 0

(* The rest of an iteration of the loop of SFNOLayer.forward once the
   spectral convolution and the boundary coupling of level k are computed
   (conv and coupling are what the two operators gave on samples of the
   inputs' shapes): residual, sum, norm, activation, dropout *)
SFNOLayerCombine(id, dims, training, X, k, rng, conv, coupling) ==
    LET top == Len(dims) - 1
        X_k == X[k + 1]
        X_below == IF k > 0 THEN Sample(X[k]) ELSE NoTensor
        X_above == IF k < top THEN Sample(X[k + 2]) ELSE NoTensor
        B_k == IF k > 0 THEN boundary_matrices[k + 1] ELSE None
        B_kp1 == IF k < top THEN boundary_matrices[k + 2] ELSE None
        none == [op |-> "none"]
        S_k == [op |-> "scale", alpha |-> k,
                of |-> [op |-> "spectral_conv", layer |-> id, level |-> k,
                        n_modes |-> conv.n_modes, X |-> X_k.val]]
        B_coupled ==
            [op |-> "coupling", layer |-> id, level |-> k,
             above |-> IF Active(k < top, X_above, B_kp1)
                       THEN X[k + 2].val ELSE none,
             below |-> IF Active(k > 0, X_below, B_k)
                       THEN X[k].val ELSE none]
        R_k == [op |-> "residual", layer |-> id, level |-> k, X |-> X_k.val]
        R_shape == <<X_k.shape[1], X_k.shape[2], dims[k + 1]>>
        SB_shape == AddShape(conv.out.shape, coupling.out.shape)
        Y_shape == AddShape(SB_shape, R_shape)
        Y_k == Sym(Y_shape,
                   [op |-> "activation",
                    of |-> [op |-> "norm", layer |-> id, level |-> k,
                            of |-> [op |-> "sum", S |-> S_k,
                                    B |-> B_coupled, R |-> R_k]]])
        fail(e, at) == [error |-> e, at |-> at, out |-> X_k, rng |-> rng]
        dropped == Dropout(training, Y_k, rng)
    IN  IF conv.error # "none" THEN fail(conv.error, "spectral_conv")
        ELSE IF coupling.error # "none" THEN fail(coupling.error, "coupling")
        ELSE IF X_k.shape[3] # dims[k + 1]
        THEN fail("RuntimeError", "residual")
        ELSE IF SB_shape = <<>> \/ Y_shape = <<>>
        THEN fail("RuntimeError", "sum")
        ELSE IF Y_shape[3] # dims[k + 1] THEN fail("RuntimeError", "norm")
        ELSE [error |-> "none", at |-> "computed", out |-> dropped.out,
              rng |-> dropped.rng]

(* One iteration of the loop of SFNOLayer.forward: level k (0-based) of the
   layer named id, with widths dims and mode counts n_modes, on the list X.
   Reads the complex; returns the exception raised or the tensor appended to
   outputs, and the generator state *)
SFNOLayerLevel(id, dims, n_modes, training, X, k, rng) ==
    LET top == Len(dims) - 1
        X_k == X[k + 1]
        eig == eigendecompositions[k + 1]
    IN  IF Skipped(X_k)
        THEN [error |-> "none", at |-> "skip", out |-> X_k, rng |-> rng]
        ELSE IF k + 1 > Len(eigendecompositions)
        THEN [error |-> "IndexError", at |-> "eigendecompositions",
              out |-> X_k, rng |-> rng]
        ELSE SFNOLayerCombine(id, dims, training, X, k, rng,
                 SpectralConvolutionForward(
                     SpectralConvolutionModule(dims[k + 1], dims[k + 1],
                                               n_modes[k + 1], "mlp"),
                     Sample(X_k),
                     PatternMatrix(eig.U_rows, Len(eig.U), 0),
                     eig.Lambda),
                 BoundaryCouplingForward(
                     BoundaryCouplingModule(
                         dims[k + 1],
                         IF k > 0 THEN dims[k] ELSE 0,
                         IF k < top THEN dims[k + 2] ELSE 0,
                         k > 0, k < top),
                     Sample(X_k),
                     IF k > 0 THEN Sample(X[k]) ELSE NoTensor,
                     IF k < top THEN Sample(X[k + 2]) ELSE NoTensor,
                     IF k > 0 THEN boundary_matrices[k + 1] ELSE None,
                     IF k < top THEN boundary_matrices[k + 2] ELSE None))

RECURSIVE SFNOLayerFrom(_, _, _, _, _, _, _, _)

(* SFNOLayerNext writing the tensor into X as well: the levels after k read
   the updated list *)
SFNOLayerNextInPlace(id, dims, n_modes, training, X, k, outputs, r) ==
    IF r.error # "none"
    THEN [error |-> r.error, level |-> k, at |-> r.at,
          outputs |-> outputs, rng |-> r.rng]
    ELSE SFNOLayerFrom(id, dims, n_modes, training,
                       [X EXCEPT ![k + 1] = r.out], k + 1,
                       Append(outputs, r.out), r.rng)

(* The end of an iteration whose outcome is r: the exception leaves the
   loop, the tensor is appended and the loop goes on *)
SFNOLayerNext(id, dims, n_modes, training, X, k, outputs, r) ==
    IF r.error # "none"
    THEN [error |-> r.error, level |-> k, at |-> r.at,
          outputs |-> outputs, rng |-> r.rng]
    ELSE SFNOLayerFrom(id, dims, n_modes, training, X, k + 1,
                       Append(outputs, r.out), r.rng)

(* SFNOLayer.forward from level k on, with the outputs appended so far:
   the list it returns or the exception that ends it, the levels it went
   through, and the generator state *)
SFNOLayerFrom(id, dims, n_modes, training, X, k, outputs, rng) ==
    IF k > Len(dims) - 1
    THEN [error |-> "none", level |-> k, at |-> "return",
          outputs |-> outputs, rng |-> rng]
    ELSE IF k + 1 > Len(X)
    THEN [error |-> "IndexError", level |-> k, at |-> "X[k]",
          outputs |-> outputs, rng |-> rng]
    ELSE SFNOLayerNext(id, dims, n_modes, training, X, k, outputs,
             SFNOLayerLevel(id, dims, n_modes, training, X, k, rng))

(* SFNOLayer.forward(X, complex) *)
SFNOLayerForward(id, dims, n_modes, training, X, rng) ==
    SFNOLayerFrom(id, dims, n_modes, training, X, 0, <<>>, rng)

----------------------------------------------------------------------------
(* SFNO_UD.  The model is its constructor arguments and its mode flag; a
   learnable parameter is named in the expressions that use it *)

(* The default of the primes argument *)
DefaultPrimes == <<2, 3, 5>>

(* The n_modes list the layers are built with: the default is 64 modes at
   every level *)
ModesOf(m) ==
    IF m.n_modes = <<>>
    THEN [k \in 1..Len(m.in_dims) |-> DefaultModes] ELSE m.n_modes

(* A forward call that has not started *)
NotCalled ==
    [pc |-> "idle", X |-> <<>>, H |-> <<>>, l |-> 0, p |-> 1, j |-> 0,
     H_p |-> <<>>, adelic_outputs |-> <<>>, steps |-> <<>>,
     error |-> "none", outputs |-> <<>>]

(* model(X, complex) has been entered *)
Called(X) == [NotCalled EXCEPT !.pc = "input", !.X = X]

(* The call ended with the exception e *)
Failed(th, e, steps) ==
    [th EXCEPT !.pc = "failed", !.error = e, !.steps = th.steps \o steps]

(* [self.input_projs[k](X[k]) for k in range(self.max_k + 1)] from level k
   on: the list, or the exception raised and the projections made before *)
RECURSIVE InputProjectionsFrom(_, _, _, _)
InputProjectionsFrom(m, X, k, H) ==
    IF k > Len(m.in_dims) - 1 THEN [error |-> "none", H |-> H]
    ELSE IF k + 1 > Len(X) THEN [error |-> "IndexError", H |-> H]
    ELSE IF X[k + 1].shape[3] # m.in_dims[k + 1]
    THEN [error |-> "RuntimeError", H |-> H]
    ELSE InputProjectionsFrom(m, X, k + 1,
             Append(H, Sym(<<X[k + 1].shape[1], X[k + 1].shape[2],
                             m.hidden_dims[k + 1]>>,
                           [op |-> "linear", name |-> "input_projs",
                            index |-> k, of |-> X[k + 1].val])))

(* The levels a layer call computed (the non-empty ones) before it returned
   or raised at level upto *)
LevelSteps(phase, index, X, upto) ==
    SelectSeq([i \in 1..upto |-> <<phase, index, i - 1>>],
              LAMBDA s : X[s[3] + 1].shape[2] # 0)

(* H = [input_projs ...] *)
InputStep(m, th, rng) ==
    LET r == InputProjectionsFrom(m, th.X, 0, <<>>)
        steps == [i \in 1..Len(r.H) |-> <<"input_proj", 0, i - 1>>]
    IN  [th |-> IF r.error # "none" THEN Failed(th, r.error, steps)
                ELSE [th EXCEPT !.pc = "layers", !.H = r.H,
                                !.steps = th.steps \o steps],
         rng |-> rng]

(* Where forward goes after the main layers *)
AfterLayers(m, th) ==
    IF th.l < m.n_layers THEN th
    ELSE IF m.use_adelic
    THEN [th EXCEPT !.pc = "adelic", !.p = 1, !.j = 0, !.H_p = th.H]
    ELSE [th EXCEPT !.pc = "output"]

(* H = layer(H, complex) for the next main layer *)
LayerStep(m, th, rng) ==
    LET r == SFNOLayerForward(<<"layers", 0, th.l>>, m.hidden_dims,
                              ModesOf(m), m.training, th.H, rng)
        steps == LevelSteps("layer", th.l, th.H, r.level)
    IN  [th |-> IF r.error # "none" THEN Failed(th, r.error, steps)
                ELSE AfterLayers(m, [th EXCEPT !.H = r.outputs,
                                               !.l = th.l + 1,
                                               !.steps = th.steps \o steps]),
         rng |-> r.rng]

(* The branch of the current prime is finished: keep its H_p and start the
   next prime from a clone of H *)
AfterAdelicLayer(m, th) ==
    IF th.j < m.n_layers \div 2 THEN th
    ELSE [th EXCEPT !.adelic_outputs = Append(th.adelic_outputs, th.H_p),
                    !.p = th.p + 1, !.j = 0, !.H_p = th.H]

(* H_p = adelic_layer(H_p, complex) for the next layer of the current
   prime's branch *)
AdelicStep(m, th, rng) ==
    LET prime == m.primes[th.p]
        r == SFNOLayerForward(<<"adelic_branches", prime, th.j>>,
                              m.hidden_dims, ModesOf(m), m.training,
                              th.H_p, rng)
        steps == LevelSteps("adelic_layer", prime, th.H_p, r.level)
    IN  [th |-> IF r.error # "none" THEN Failed(th, r.error, steps)
                ELSE AfterAdelicLayer(m, [th EXCEPT !.H_p = r.outputs,
                                                    !.j = th.j + 1,
                                                    !.steps = th.steps \o steps]),
         rng |-> r.rng]

(* BindingStep going on with the list of the last branch: its levels
   k >= 1 take the place of the main stack's *)
BindingStepTakingBranch(m, th, rng) ==
    LET branches == IF m.n_layers \div 2 = 0
                    THEN [i \in 1..Len(m.primes) |-> th.H]
                    ELSE th.adelic_outputs
        bound == Sym(<<th.H[1].shape[1], th.H[1].shape[2], m.hidden_dims[1]>>,
                     [op |-> "linear", name |-> "binding_layer", index |-> 0,
                      of |-> [op |-> "cat",
                              parts |-> <<th.H[1].val>>
                                  \o [i \in 1..Len(branches) |->
                                         branches[i][1].val]]])
    IN  [th |-> [th EXCEPT !.pc = "output",
                           !.H = [branches[Len(branches)] EXCEPT ![1] = bound],
                           !.adelic_outputs = branches,
                           !.steps = th.steps \o <<<<"binding", 0, 0>>>>],
         rng |-> rng]

(* H[0] = self.binding_layer(torch.cat([H[0]] + [adelic_outputs[p][0] ...],
   dim=-1)); with no layer in a branch adelic_outputs[p] is a clone of H *)
BindingStep(m, th, rng) ==
    LET branches == IF m.n_layers \div 2 = 0
                    THEN [i \in 1..Len(m.primes) |-> th.H]
                    ELSE th.adelic_outputs
        parts == <<th.H[1]>> \o [i \in 1..Len(branches) |-> branches[i][1]]
        width == SumTo([i \in 1..Len(parts) |-> parts[i].shape[3]],
                       Len(parts))
        bound == Sym(<<th.H[1].shape[1], th.H[1].shape[2], m.hidden_dims[1]>>,
                     [op |-> "linear", name |-> "binding_layer", index |-> 0,
                      of |-> [op |-> "cat",
                              parts |-> [i \in 1..Len(parts) |->
                                            parts[i].val]]])
    IN  [th |-> IF \E i \in 1..Len(parts) :
                      \/ parts[i].shape[1] # th.H[1].shape[1]
                      \/ parts[i].shape[2] # th.H[1].shape[2]
                THEN Failed(th, "RuntimeError", <<>>)
                ELSE IF width # m.hidden_dims[1] * (1 + Len(m.primes))
                THEN Failed(th, "RuntimeError", <<>>)
                ELSE [th EXCEPT !.pc = "output",
                                !.H = [th.H EXCEPT ![1] = bound],
                                !.adelic_outputs = branches,
                                !.steps = th.steps \o <<<<"binding", 0, 0>>>>],
         rng |-> rng]

(* outputs = [self.output_projs[k](H[k]) ...] from level k on, each
   tropicalized in tropical mode *)
RECURSIVE OutputProjectionsFrom(_, _, _, _)
OutputProjectionsFrom(m, H, k, outputs) ==
    IF k > Len(m.in_dims) - 1 THEN [error |-> "none", outputs |-> outputs]
    ELSE IF k + 1 > Len(H) THEN [error |-> "IndexError", outputs |-> outputs]
    ELSE IF H[k + 1].shape[3] # m.hidden_dims[k + 1]
    THEN [error |-> "RuntimeError", outputs |-> outputs]
    ELSE OutputProjectionsFrom(m, H, k + 1,
             Append(outputs,
                    Sym(<<H[k + 1].shape[1], H[k + 1].shape[2],
                          m.out_dims[k + 1]>>,
                        [op |-> "linear", name |-> "output_projs",
                         index |-> k, of |-> H[k + 1].val])))

(* self._tropicalize(o) *)
Tropicalize(o) == Sym(o.shape, [op |-> "tropicalize", of |-> o.val])

(* The output projection, the tropical mode and the return *)
OutputStep(m, th, rng) ==
    LET r == OutputProjectionsFrom(m, th.H, 0, <<>>)
        steps == [i \in 1..Len(r.outputs) |-> <<"output_proj", 0, i - 1>>]
        outputs == IF m.tropical_mode
                   THEN [i \in 1..Len(r.outputs) |-> Tropicalize(r.outputs[i])]
                   ELSE r.outputs
    IN  [th |-> IF r.error # "none" THEN Failed(th, r.error, steps)
                ELSE [th EXCEPT !.pc = "done", !.outputs = outputs,
                                !.steps = th.steps \o steps],
         rng |-> rng]

(* The next step of a forward call *)
Step(m, th, rng) ==
    CASE th.pc = "input" -> InputStep(m, th, rng)
      [] th.pc = "layers" -> LayerStep(m, th, rng)
      [] th.pc = "adelic" /\ th.p <= Len(m.primes) /\ m.n_layers \div 2 > 0
            -> AdelicStep(m, th, rng)
      [] th.pc = "adelic" /\ (th.p > Len(m.primes) \/ m.n_layers \div 2 = 0)
            -> BindingStep(m, th, rng)
      [] th.pc = "output" -> OutputStep(m, th, rng)

(* The call run to its end with no other call in between *)
RECURSIVE RunAlone(_, _, _)
RunAlone(m, th, rng) ==
    IF th.pc \in {"done", "failed"} THEN th
    ELSE LET s == Step(m, th, rng) IN RunAlone(m, s.th, s.rng)

----------------------------------------------------------------------------
(* Forward calls of one SFNO_UD on one constructed complex, by two callers *)

Callers == {1, 2}

LayerCounts == {1, 2}

(* The graph of a 3-cycle as from_graph gives it without triangles: as
   many edges as vertices *)
Cycle == FromGraphSimplices(<<<<0, 1>>, <<1, 2>>, <<0, 2>>>>, 3, FALSE, FALSE)

(* The complexes the forward calls run on *)
ForwardSimplices ==
    {FromSequenceSimplices(length, 2) : length \in 1..MaxNodes}
        \cup {ScenarioA, ScenarioC, Cycle}

ForwardModeCounts == {MaxModes, DefaultModes}

(* SFNO_UD(in_dims, hidden_dims, out_dims, n_layers, use_adelic=...,
   tropical_mode=...) for a complex of the given number of levels, in
   training mode (the mode a new module is in) or after model.eval().  The
   training-mode models with adelic branches are those with no layer in a
   branch (n_layers // 2 = 0), which keeps the orders in which two calls draw
   their dropout masks few *)
ModelConfigs(levels) ==
    {m \in {[in_dims |-> [k \in 1..levels |-> d + 1],
             hidden_dims |-> [k \in 1..levels |-> d],
             out_dims |-> [k \in 1..levels |-> 1],
             n_layers |-> n_layers,
             n_modes |-> <<>>,
             use_adelic |-> use_adelic,
             primes |-> DefaultPrimes,
             tropical_mode |-> tropical_mode,
             training |-> training] :
                d \in 1..MaxDim, n_layers \in LayerCounts,
                use_adelic \in BOOLEAN, tropical_mode \in BOOLEAN,
                training \in BOOLEAN} :
        (m.training /\ m.use_adelic) => m.n_layers \div 2 = 0}

(* How the feature list a caller passes relates to the model and the
   complex: every tensor matches, the top level has one channel too many,
   or level 0 has one simplex too many *)
InputVariants == {"match", "channel", "count"}

(* The list X of caller t *)
InputsOf(t, variant) ==
    [i \in 1..(max_k + 1) |->
        Sym(<<Min(t, MaxBatch),
              n_simplices[i] + (IF variant = "count" /\ i = 1 THEN 1 ELSE 0),
              model.in_dims[i]
                + (IF variant = "channel" /\ i = max_k + 1 THEN 1 ELSE 0)>>,
            [op |-> "input", caller |-> t, level |-> i - 1])]

(* A constructed complex and a constructed model, no forward call yet *)
InitFwd ==
    /\ \E s \in ForwardSimplices, M \in ForwardModeCounts :
          LET n == [k \in 1..Len(s) |-> Len(s[k])]
              mk == Len(s) - 1
              bm == ComputeBoundaryMatricesOf(s, n, mk)
              hl == ComputeHodgeLaplaciansOf(bm, n, mk)
              eig == [k \in 1..(mk + 1) |->
                        Eigendecomposition(hl[k], M, FALSE, "ascending",
                                           "ascending")]
          IN  /\ pc = "ready"
              /\ call = [kind |-> "direct"]
              /\ error = "none"
              /\ simplices = s
              /\ max_k = mk
              /\ max_modes = M
              /\ n_simplices = n
              /\ boundary_matrices = bm
              /\ hodge_laplacians = hl
              /\ eigendecompositions = eig
              /\ solver_tier = [k \in 1..(mk + 1) |->
                                   SolverTier(hl[k], M, FALSE)]
              /\ solver_order = "ascending"
              /\ solver_calls = [k \in 1..(mk + 1) |->
                                    SolverCalls(hl[k], M, FALSE, FALSE)]
              /\ betti_numbers = [k \in 1..(mk + 1) |->
                                     BettiNumber(eig[k].Lambda)]
              /\ model \in ModelConfigs(Len(s))
    /\ op = [kind |-> "none"]
    /\ rng_state = 0
    /\ threads = [t \in Callers |-> NotCalled]

(* Caller t calls model(X, complex) *)
Call(t) ==
    /\ threads[t].pc = "idle"
    /\ \E variant \in InputVariants :
          threads' = [threads EXCEPT ![t] = Called(InputsOf(t, variant))]
    /\ UNCHANGED <<complex_vars, op, model, rng_state>>

(* The call of caller t takes the step s *)
Take(t, s) ==
    /\ threads' = [threads EXCEPT ![t] = s.th]
    /\ rng_state' = s.rng
    /\ UNCHANGED <<complex_vars, op, model>>

InputProjection(t) ==
    /\ threads[t].pc = "input"
    /\ Take(t, InputStep(model, threads[t], rng_state))

LayerCall(t) ==
    /\ threads[t].pc = "layers"
    /\ Take(t, LayerStep(model, threads[t], rng_state))

AdelicLayerCall(t) ==
    /\ threads[t].pc = "adelic"
    /\ threads[t].p <= Len(model.primes)
    /\ model.n_layers \div 2 > 0
    /\ Take(t, AdelicStep(model, threads[t], rng_state))

Binding(t) ==
    /\ threads[t].pc = "adelic"
    /\ (threads[t].p > Len(model.primes) \/ model.n_layers \div 2 = 0)
    /\ Take(t, BindingStep(model, threads[t], rng_state))

OutputProjection(t) ==
    /\ threads[t].pc = "output"
    /\ Take(t, OutputStep(model, threads[t], rng_state))

NextFwd ==
    \E t \in Callers :
        \/ Call(t)
        \/ InputProjection(t)
        \/ LayerCall(t)
        \/ AdelicLayerCall(t)
        \/ Binding(t)
        \/ OutputProjection(t)

(* Forward calls, in any interleaving of their steps *)
SpecFwd == InitFwd /\ [][NextFwd]_vars

----------------------------------------------------------------------------
(* Properties *)

Level(k) == simplices[k + 1]

N(k) == n_simplices[k + 1]

B(k) == boundary_matrices[k + 1]

L(k) == hodge_laplacians[k + 1]

Returned == pc = "ready"

Ended == pc \in {"ready", "failed"}

(* Some simplex of a level k >= 1 has a face that is not in level k-1 *)
HasMissingFace(s) ==
    \E k \in 2..Len(s) : \E j \in 1..Len(s[k]) :
        \E p \in 1..Len(s[k][j]) :
            \A i \in 1..Len(s[k - 1]) :
                Sorted(s[k - 1][i]) # RemoveAt(Sorted(s[k][j]), p)

(* Some level holds two simplices that are equal after sorting *)
HasDuplicate(s) ==
    \E k \in 1..Len(s) : \E i, j \in 1..Len(s[k]) :
        i < j /\ Sorted(s[k][i]) = Sorted(s[k][j])

RECURSIVE AltSum(_, _)
AltSum(f, n) ==
    IF n = 0 THEN 0
    ELSE (IF n % 2 = 1 THEN f[n] ELSE -f[n]) + AltSum(f, n - 1)

(* C1: in every constructed complex B_k * B_{k+1} is the zero matrix for
   every k with 1 <= k < top level *)
C1_BoundaryOfBoundaryZero ==
    Returned =>
        \A k \in 1..(max_k - 1) : IsZeroMatrix(MatMul(B(k), B(k + 1)))

(* C2: a directly supplied complex in which some simplex has a face that is
   absent from the level below is rejected with a StructuralError and no
   complex is returned *)
C2_MissingFaceRejected ==
    (Ended /\ call.kind = "direct" /\ HasMissingFace(simplices)) =>
        (pc = "failed" /\ error = "StructuralError")

(* C3: an input with two simplices of one level equal after sorting is
   rejected with a StructuralError and no complex is returned *)
C3_DuplicateRejected ==
    (Ended /\ HasDuplicate(simplices)) =>
        (pc = "failed" /\ error = "StructuralError")

(* C4: in every constructed complex B_k has shape n_{k-1} x n_k, its entry
   (i, j) is (-1)^p when the i-th (k-1)-simplex is the j-th k-simplex with
   the vertex at sorted position p deleted, and 0 when the i-th simplex is
   not a face of the j-th *)
C4_BoundaryEntries ==
    Returned =>
        \A k \in 1..max_k :
            /\ B(k).nr = N(k - 1)
            /\ B(k).nc = N(k)
            /\ \A i \in 1..N(k - 1) : \A j \in 1..N(k) :
                  LET tau == Sorted(Level(k - 1)[i])
                      sigma == Sorted(Level(k)[j])
                      P == {p \in 1..Len(sigma) : RemoveAt(sigma, p) = tau}
                  IN  IF P = {} THEN B(k).e[i][j] = 0
                      ELSE \E p \in P : B(k).e[i][j] = Sign(p - 1)

(* C5: for every level k with n_k > 0 the stored Laplacian is the n_k x n_k
   matrix B_k^T B_k + B_{k+1} B_{k+1}^T, without the first term at k = 0
   and without the second term at the top level *)
C5_LaplacianFormula ==
    pc \in {"eigen", "betti", "ready"} =>
        \A k \in 0..max_k :
            N(k) > 0 =>
                /\ L(k).nr = N(k)
                /\ L(k).nc = N(k)
                /\ \A i, j \in 1..N(k) :
                      L(k).e[i][j] =
                          (IF k > 0
                           THEN SumTo([r \in 1..N(k - 1) |->
                                         B(k).e[r][i] * B(k).e[r][j]],
                                      N(k - 1))
                           ELSE 0)
                        + (IF k < max_k
                           THEN SumTo([c \in 1..N(k + 1) |->
                                         B(k + 1).e[i][c] * B(k + 1).e[j][c]],
                                      N(k + 1))
                           ELSE 0)

(* C5 witness: a returned complex with a middle level whose Laplacian has a
   non-zero contribution from below and from above *)
C5_Witness ==
    /\ Returned
    /\ max_k = 2
    /\ \E i \in 1..N(1) :
          /\ \E r \in 1..N(0) : B(1).e[r][i] # 0
          /\ \E c \in 1..N(2) : B(2).e[i][c] # 0
    /\ \E i \in 1..N(0) : L(0).e[i][i] # 0
    /\ \E i \in 1..N(2) : L(2).e[i][i] # 0

(* C6: for every level with n_k >= 1 and every mode count M with
   0 <= M <= n_k the stored eigendecomposition holds at most M eigenpairs *)
C6_AtMostMModes ==
    Returned =>
        \A k \in 0..max_k :
            (N(k) >= 1 /\ 0 <= max_modes /\ max_modes <= N(k)) =>
                Len(eigendecompositions[k + 1].Lambda) <= max_modes

(* C7: in every constructed complex with untruncated spectra (M >= n_k at
   every level) the alternating sum of the simplex counts equals the
   alternating sum of the Betti numbers *)
C7_EulerPoincare ==
    (Returned /\ \A k \in 0..max_k : max_modes >= N(k)) =>
        AltSum(n_simplices, max_k + 1) = AltSum(betti_numbers, max_k + 1)

(* C8: the filled triangle yields n = [3,3,1] and beta = [1,0,0] *)
C8_ScenarioA ==
    (Returned /\ simplices = ScenarioA /\ max_modes >= 1) =>
        (n_simplices = <<3, 3, 1>> /\ betti_numbers = <<1, 0, 0>>)

(* C8 witness: the triangle has been constructed with the default mode
   count *)
C8_Witness ==
    /\ Returned
    /\ call.kind = "direct"
    /\ simplices = ScenarioA
    /\ max_modes = DefaultModes

(* C9: the 4-cycle without triangles yields n = [4,4] and beta = [1,1] *)
C9_ScenarioB ==
    (Returned /\ simplices = ScenarioB /\ max_modes >= 1) =>
        (n_simplices = <<4, 4>> /\ betti_numbers = <<1, 1>>)

(* C9 witness: the 4-cycle has been constructed with the default mode
   count *)
C9_Witness ==
    /\ Returned
    /\ call.kind = "direct"
    /\ simplices = ScenarioB
    /\ max_modes = DefaultModes

(* np.linalg.eigh raised at some level *)
DenseSolverFailed ==
    \E k \in 1..Len(solver_calls) : \E i \in 1..Len(solver_calls[k]) :
        solver_calls[k][i].solver = "eigh" /\ ~solver_calls[k][i].ok

(* C10: two isolated vertices with an empty edge level are constructed
   without error (the dense solver not failing on the 2 x 2 zero matrix),
   with n = [2,0], beta_0 = 2, a 2 x 0 boundary matrix B_1, a 0 x 0
   Laplacian L_1 and beta_1 = 0 *)
C10_ScenarioC ==
    (simplices = ScenarioC /\ max_modes >= 1 /\ ~DenseSolverFailed) =>
        /\ pc # "failed"
        /\ error = "none"
        /\ Returned =>
              /\ n_simplices = <<2, 0>>
              /\ betti_numbers = <<2, 0>>
              /\ B(1) = Zeros(2, 0)
              /\ B(2) = Zeros(0, 0)
              /\ L(0) = Zeros(2, 2)
              /\ L(1) = Zeros(0, 0)

(* C10 witness: the pair of isolated vertices has been constructed with the
   default mode count *)
C10_Witness ==
    /\ Returned
    /\ call.kind = "direct"
    /\ simplices = ScenarioC
    /\ max_modes = DefaultModes

(* C11: at every level the Betti number of the full spectrum (M = n_k) is
   at least the Betti number stored for a truncated mode count M < n_k *)
C11_FullSpectrumBettiIsLargest ==
    Returned =>
        \A k \in 0..max_k :
            max_modes < N(k) =>
                betti_numbers[k + 1] <=
                    BettiNumber(Eigendecomposition(L(k), N(k), FALSE, "ascending",
                                                   "ascending").Lambda)

(* C11 witness: a level served by eigsh with M < n_k - 1 whose stored Betti
   number is positive and strictly below the full-spectrum one *)
C11_Witness ==
    /\ Returned
    /\ \E k \in 0..max_k :
          /\ max_modes < N(k) - 1
          /\ solver_tier[k + 1] = "eigsh"
          /\ betti_numbers[k + 1] >= 1
          /\ betti_numbers[k + 1] <
                 BettiNumber(Eigendecomposition(L(k), N(k), FALSE, "ascending",
                                                   "ascending").Lambda)

(* The attributes __init__ assigns to the object, each with its Python type
   and its value *)
ComplexAttributes ==
    <<[name |-> "simplices", type |-> "List[List[Tuple[int]]]",
       value |-> simplices],
      [name |-> "max_k", type |-> "int", value |-> max_k],
      [name |-> "device", type |-> "str", value |-> "cpu"],
      [name |-> "max_modes", type |-> "int", value |-> max_modes],
      [name |-> "n_simplices", type |-> "List[int]", value |-> n_simplices],
      [name |-> "boundary_matrices", type |-> "List[Optional[Tensor]]",
       value |-> boundary_matrices],
      [name |-> "hodge_laplacians", type |-> "List[Tensor]",
       value |-> hodge_laplacians],
      [name |-> "eigendecompositions", type |-> "List[Tuple[Tensor, Tensor]]",
       value |-> eigendecompositions],
      [name |-> "betti_numbers", type |-> "List[int]",
       value |-> betti_numbers]>>

(* C12: the constructed complex exposes a per-level truncation flag that is
   set exactly when the mode count M is below n_k *)
C12_TruncationFlagExposed ==
    Returned =>
        \E i \in 1..Len(ComplexAttributes) :
            LET a == ComplexAttributes[i]
            IN  /\ a.type = "List[bool]"
                /\ Len(a.value) = max_k + 1
                /\ \A k \in 0..max_k :
                      a.value[k + 1] = (max_modes < N(k))

(* Every field __init__ computes is present, one entry per level (and one
   more boundary matrix) *)
Complete ==
    /\ Len(boundary_matrices) = max_k + 2
    /\ Len(hodge_laplacians) = max_k + 1
    /\ Len(eigendecompositions) = max_k + 1
    /\ Len(betti_numbers) = max_k + 1

(* C17: a complex is returned only with no error and with all of boundary
   matrices, Laplacians, eigenpairs (each from a solver call that
   succeeded) and Betti numbers present; a construction that failed at any
   step stays failed and never returns a complex *)
C17_NoPartialComplex ==
    /\ [](Returned =>
            /\ error = "none"
            /\ Complete
            /\ \A k \in 1..(max_k + 1) :
                  N(k - 1) > 0 =>
                      /\ Len(solver_calls[k]) > 0
                      /\ solver_calls[k][Len(solver_calls[k])].ok)
    /\ [](error # "none" => pc = "failed")
    /\ [][pc = "failed" => pc' = "failed"]_vars

(* C17 witness: a helper's construction failed in the eigendecomposition,
   after boundary matrices and Laplacians had been assigned *)
C17_Witness ==
    /\ pc = "failed"
    /\ error = "LinAlgError"
    /\ call.kind = "from_sequence"
    /\ Len(boundary_matrices) = max_k + 2
    /\ Len(hodge_laplacians) = max_k + 1
    /\ eigendecompositions = <<>>
    /\ betti_numbers = <<>>

(* C20: a failed eigsh call is followed by exactly one eigh call and, when
   that succeeds, construction does not fail; a failed eigh call is the
   last solver call made and ends construction with its error; construction
   ends with a numerical error only when an eigh call failed *)
C20_FallbackOnceDenseFinal ==
    /\ \A k \in 1..Len(solver_calls) :
          LET c == solver_calls[k]
          IN  \A i \in 1..Len(c) :
                /\ (c[i].solver = "eigsh" /\ ~c[i].ok) =>
                      /\ i = 1
                      /\ Len(c) = 2
                      /\ c[2].solver = "eigh"
                /\ (c[i].solver = "eigh" /\ ~c[i].ok) =>
                      /\ i = Len(c)
                      /\ \A j \in (k + 1)..Len(solver_calls) :
                            solver_calls[j] = <<>>
                      /\ pc = "failed"
                      /\ error = "LinAlgError"
    /\ (pc = "failed" /\ error = "LinAlgError") =>
          \E k \in 1..Len(solver_calls) :
              \E i \in 1..Len(solver_calls[k]) :
                  /\ solver_calls[k][i].solver = "eigh"
                  /\ ~solver_calls[k][i].ok

(* C20 witness: a complex was returned although eigsh failed at a level,
   the dense solver having produced that level's eigenpairs *)
C20_Witness ==
    /\ Returned
    /\ \E k \in 1..(max_k + 1) :
          /\ solver_calls[k] = <<[solver |-> "eigsh", ok |-> FALSE],
                                 [solver |-> "eigh", ok |-> TRUE]>>
          /\ Len(eigendecompositions[k].Lambda) >= 1

(* A neighbouring level is absent (the module was built without it, or no
   tensor was passed for it) or has zero simplices *)
LevelMissing(has, X_n) == ~has \/ X_n.none \/ X_n.shape[2] = 0

(* C13: BoundaryCoupling.forward returns the exactly-zero tensor of the
   shape of X_k whenever each neighbouring level is absent or has zero
   simplices *)
C13_CouplingZeroWithoutNeighbours ==
    (/\ op.kind = "BoundaryCoupling"
     /\ LevelMissing(op.m.has_below, op.X_k_minus_1)
     /\ LevelMissing(op.m.has_above, op.X_k_plus_1)) =>
        op.result = Ok(ZerosLike(op.X_k))

(* C13 witness: the module has both neighbours, both were passed with zero
   simplices and with their boundary matrices, X_k is not zero, and the
   call returned *)
C13_Witness ==
    /\ op.kind = "BoundaryCoupling"
    /\ op.m.has_below /\ op.m.has_above
    /\ ~op.m.W_down.none /\ ~op.m.W_up.none
    /\ ~op.X_k_minus_1.none /\ op.X_k_minus_1.shape[2] = 0
    /\ ~op.X_k_plus_1.none /\ op.X_k_plus_1.shape[2] = 0
    /\ ~op.B_k.none /\ ~op.B_k_plus_1.none
    /\ op.X_k.shape[2] >= 2
    /\ \E x \in 1..op.X_k.shape[1] : \E i \in 1..op.X_k.shape[2] :
          \E c \in 1..op.X_k.shape[3] : op.X_k.e[x][i][c] # 0
    /\ op.result.error = "none"

(* C14: with both neighbouring levels passed, of any sizes n_{k-1} >= 0 and
   n_{k+1} >= 0 and positive channel width, and boundary matrices of the
   matching shapes, BoundaryCoupling.forward completes without error and
   returns a tensor of shape batch x n_k x C_k *)
C14_CouplingTotal ==
    (/\ op.kind = "BoundaryCoupling"
     /\ op.m.has_below /\ op.m.has_above
     /\ ~op.m.W_down.none /\ ~op.m.W_up.none
     /\ ~op.X_k_minus_1.none /\ ~op.X_k_plus_1.none
     /\ op.B_k.nr = op.X_k_minus_1.shape[2]
     /\ op.B_k.nc = op.X_k.shape[2]
     /\ op.B_k_plus_1.nr = op.X_k.shape[2]
     /\ op.B_k_plus_1.nc = op.X_k_plus_1.shape[2]) =>
        /\ op.result.error = "none"
        /\ op.result.out.shape = op.X_k.shape

(* C15: when the eigenvector matrix passed for a level of n_k simplices has
   at least one column but fewer columns than the configured mode count or
   fewer than n_k, SpectralConvolution.forward uses min(configured modes,
   available columns) modes and returns a tensor of shape
   batch x n_k x C_out without raising *)
C15_TruncatedBasisAccepted ==
    (/\ op.kind = "SpectralConvolution"
     /\ op.U.nr = op.X.shape[2]
     /\ op.X.shape[3] = op.m.in_features
     /\ Len(op.Lambda) = op.U.nc
     /\ op.U.nc >= 1
     /\ op.m.n_modes >= 1
     /\ (op.U.nc < op.m.n_modes \/ op.U.nc < op.X.shape[2])) =>
        /\ op.result.error = "none"
        /\ op.result.n_modes = Min(op.m.n_modes, op.U.nc)
        /\ op.result.out.shape =
               <<op.X.shape[1], op.X.shape[2], op.m.out_features>>

(* The layer a forward call in the thread state th calls next, the list it
   calls it on, and the list the call returned when th2 is the thread state
   after it *)
LayerId(th) ==
    IF th.pc = "layers" THEN <<"layers", 0, th.l>>
    ELSE <<"adelic_branches", model.primes[th.p], th.j>>

LayerInput(th) == IF th.pc = "layers" THEN th.H ELSE th.H_p

(* The next step of the thread state th is a call of a layer *)
AtLayerCall(th) ==
    \/ th.pc = "layers"
    \/ th.pc = "adelic" /\ th.p <= Len(model.primes)
                        /\ model.n_layers \div 2 > 0

LayerOutput(th, th2) ==
    IF th.pc = "layers" THEN th2.H
    ELSE IF th2.p > th.p THEN th2.adelic_outputs[th.p]
    ELSE th2.H_p

(* C16: in every call of an SFNOLayer (a main layer or a layer of an adelic
   branch), an exception is never raised at a level of the input list with
   n_k = 0, and when the call returns, the tensor it returns at every such
   level is the input tensor of that level, unchanged *)
C16_EmptyLevelsPassThrough ==
    [][\A t \in Callers :
          (AtLayerCall(threads[t]) /\ threads'[t] # threads[t]) =>
              LET th == threads[t]
                  X == LayerInput(th)
                  r == SFNOLayerForward(LayerId(th), model.hidden_dims,
                                        ModesOf(model), model.training, X,
                                        rng_state)
              IN  /\ threads'[t].pc = "failed" =>
                        /\ r.error # "none"
                        /\ r.level + 1 <= Len(X)
                        /\ X[r.level + 1].shape[2] # 0
                  /\ threads'[t].pc # "failed" =>
                        \A k \in 1..Len(X) :
                            X[k].shape[2] = 0 =>
                                LayerOutput(th, threads'[t])[k] = X[k]]_vars

(* C16 witness: a main layer has returned on a list with an empty level next
   to a non-empty one, and the empty level still holds the tensor the input
   projection made *)
C16_Witness ==
    \E t \in Callers :
        /\ threads[t].pc \in {"layers", "adelic", "output", "done"}
        /\ threads[t].l >= 1
        /\ \E k \in 1..Len(threads[t].H) :
              /\ threads[t].H[k].shape[2] = 0
              /\ threads[t].H[k].val.op = "linear"
        /\ \E k \in 1..Len(threads[t].H) :
              /\ threads[t].H[k].shape[2] # 0
              /\ threads[t].H[k].val.op # "linear"

(* What a finished call gave its caller: the list returned or the exception *)
Outcome(th) == [pc |-> th.pc, error |-> th.error, outputs |-> th.outputs]

(* The call of caller t has ended with what the same call gives when no
   other call runs *)
ReturnsAsAlone(t) ==
    threads[t].pc \in {"done", "failed"} =>
        Outcome(threads[t])
            = Outcome(RunAlone(model, Called(threads[t].X), 0))

(* No step of a forward call changes the complex, the model or the list a
   caller passed *)
ForwardWritesNothing ==
    /\ UNCHANGED complex_vars
    /\ model' = model
    /\ \A t \in Callers :
          threads[t].pc # "idle" => threads'[t].X = threads[t].X

(* C18: forward calls change neither the complex nor the model nor their
   inputs, and in every interleaving of two forward calls each call ends
   with what it gives when run alone *)
C18_ForwardCallsIndependent ==
    /\ [](\A t \in Callers : ReturnsAsAlone(t))
    /\ [][ForwardWritesNothing]_vars

(* C18 as it holds: the same for a model in eval mode, where dropout draws
   nothing from the process-wide generator *)
C18_ForwardCallsIndependentInEval ==
    /\ [](~model.training => \A t \in Callers : ReturnsAsAlone(t))
    /\ [][ForwardWritesNothing]_vars

(* C18 witness: two calls on an eval-mode model have both returned, each
   after at least one layer computed a level, and the generator is where it
   was *)
C18_Witness ==
    /\ ~model.training
    /\ rng_state = 0
    /\ \A t \in Callers :
          /\ threads[t].pc = "done"
          /\ \E i \in 1..Len(threads[t].steps) :
                threads[t].steps[i][1] = "layer"

(* The list X does not match the complex in a simplex count or the model in
   a channel count *)
Mismatched(X) ==
    \E i \in 1..Len(X) :
        \/ X[i].shape[2] # n_simplices[i]
        \/ X[i].shape[3] # model.in_dims[i]

(* C19: a forward call on a list whose simplex counts or channel counts do
   not match ends with ShapeMismatchError before any computation step was
   made *)
C19_MismatchRejectedBeforeComputation ==
    \A t \in Callers :
        (threads[t].pc \notin {"idle", "input"} /\ Mismatched(threads[t].X)) =>
            /\ threads[t].pc = "failed"
            /\ threads[t].error = "ShapeMismatchError"
            /\ threads[t].steps = <<>>

(* gate * Sum_j Bm[i,j] * (W X_n)[j,c] for every batch element x, simplex i
   of the n_k simplices of level k and channel c: the contribution of a
   neighbouring level as the coupling is specified, zero when the branch is
   not active *)
SpecifiedContribution(active, gate, Bm, W, X_n, X_k) ==
    LET P == Linear(W, X_n)
    IN  [x \in 1..X_k.shape[1] |-> [i \in 1..X_k.shape[2] |->
            [c \in 1..X_k.shape[3] |->
                IF active
                THEN gate * SumTo([j \in 1..Bm.nc |->
                                      Bm.e[i][j] * P.e[x][j][c]], Bm.nc)
                ELSE 0]]]

(* A call of BoundaryCoupling.forward that returned with at least one
   neighbouring level taking part *)
CouplingReturned ==
    /\ op.kind = "BoundaryCoupling"
    /\ op.result.error = "none"
    /\ \/ Active(op.m.has_above, op.X_k_plus_1, op.B_k_plus_1)
       \/ Active(op.m.has_below, op.X_k_minus_1, op.B_k)

(* C21: the tensor BoundaryCoupling.forward returns is, at every simplex i
   and channel c, beta * Sum_j B_{k+1}[i,j] * (W_down X_{k+1})[j,c] when the
   level above takes part plus gamma * Sum_j B_k[j,i] * (W_up X_{k-1})[j,c]
   when the level below takes part *)
C21_CouplingIsPerChannelSum ==
    CouplingReturned =>
        LET above == SpecifiedContribution(
                         Active(op.m.has_above, op.X_k_plus_1, op.B_k_plus_1),
                         op.m.beta, op.B_k_plus_1, op.m.W_down,
                         op.X_k_plus_1, op.X_k)
            below == SpecifiedContribution(
                         Active(op.m.has_below, op.X_k_minus_1, op.B_k),
                         op.m.gamma, Transpose(op.B_k), op.m.W_up,
                         op.X_k_minus_1, op.X_k)
        IN  op.result.out.e =
                [x \in 1..op.X_k.shape[1] |-> [i \in 1..op.X_k.shape[2] |->
                    [c \in 1..op.X_k.shape[3] |->
                        above[x][i][c] + below[x][i][c]]]]

(* U * W * (U^T * X) with the first M columns of U and the first M mode
   weights of the filter W: the spectral convolution as it is specified *)
SpecifiedConvolution(W, X, U, M) ==
    LET coefficient(x, mm, c) ==
            SumTo([n \in 1..U.nr |-> U.e[n][mm] * X.e[x][n][c]], U.nr)
        weighted(x, mm, o) ==
            SumTo([c \in 1..X.shape[3] |->
                      W.e[mm][c][o] * coefficient(x, mm, c)], X.shape[3])
    IN  [x \in 1..X.shape[1] |-> [n \in 1..U.nr |-> [o \in 1..W.shape[3] |->
            SumTo([mm \in 1..M |-> U.e[n][mm] * weighted(x, mm, o)], M)]]]

(* C22: a call of SpectralConvolution.forward with the per-mode filter, on a
   tensor and an eigenvector matrix of matching sizes, returns
   U * W * (U^T * X): mode m has the coefficient Sum_n U[n,m] * X[b,n,c],
   the weight of mode m is applied to it, and U maps the result back *)
C22_ConvolutionIsUWUtX ==
    (/\ op.kind = "SpectralConvolution"
     /\ op.m.filter_type = "mlp"
     /\ op.U.nr = op.X.shape[2]
     /\ op.X.shape[3] = op.m.in_features
     /\ op.U.nc >= 1
     /\ op.m.n_modes >= 1
     /\ op.result.error = "none") =>
        op.result.out.e =
            SpecifiedConvolution(op.m.spectral_filter, op.X, op.U,
                                 Min(op.m.n_modes, op.U.nc))

(* The stored eigenvalues and columns of a decomposed level go together:
   column i is the eigenvector of eigenvalue i, no column twice *)
PairsMatch(d, Lk) ==
    /\ Len(d.U) = Len(d.Lambda)
    /\ \A i \in 1..Len(d.U) : Spectrum(Lk)[d.U[i]] = d.Lambda[i]
    /\ \A i, j \in 1..Len(d.U) : d.U[i] = d.U[j] => i = j

(* C25: when M < n_k - 1 and eigsh failed, the level stores the M smallest
   eigenvalues of the full spectrum with their eigenvectors, whichever order
   the dense solver returned its eigenvalues in *)
C25_FallbackKeepsSmallest ==
    (op.kind = "eigendecomposition" /\ op.tier = "fallback") =>
        /\ op.result.Lambda
               = SubSeq(Spectrum(op.L), 1, Min(op.M, op.L.nr))
        /\ PairsMatch(op.result, op.L)

(* C26: on every solver path the stored eigenvalues are ascending and the
   columns of U are in the same order, column i being the eigenvector of
   eigenvalue i, whichever order the solver returned its eigenpairs in *)
C26_StoredPairsSorted ==
    op.kind = "eigendecomposition" =>
        /\ \A i, j \in 1..Len(op.result.Lambda) :
              i < j => op.result.Lambda[i] <= op.result.Lambda[j]
        /\ PairsMatch(op.result, op.L)

(* C26 witness: a dense solver returned at least two different eigenvalues
   in descending order, and they are stored ascending *)
C26_Witness ==
    /\ op.kind = "eigendecomposition"
    /\ op.tier = "dense"
    /\ op.eigh_order = "descending"
    /\ Len(op.result.Lambda) >= 2
    /\ op.result.Lambda[1] < op.result.Lambda[Len(op.result.Lambda)]
    /\ PairsMatch(op.result, op.L)

(* C23: the tensor a layer gives at a non-empty level is
   Norm(Activation(alpha_k * SpectralConv_k(X_k) + BoundaryCoupling_k(X)
   + Residual_k(X_k))): the three terms are summed, the activation is
   applied to the sum and the normalization to the activated sum (model in
   eval mode, where dropout changes nothing) *)
C23_NormOfActivationOfSum ==
    \A t \in Callers :
        (threads[t].pc = "layers" /\ threads[t].l >= 1
            /\ ~model.training) =>
            \A k \in 1..Len(threads[t].H) :
                threads[t].H[k].shape[2] # 0 =>
                    LET Y_k == threads[t].H[k].val
                    IN  /\ Y_k.op = "norm"
                        /\ Y_k.of.op = "activation"
                        /\ Y_k.of.of.op = "sum"
                        /\ Y_k.of.of.S.op = "scale"
                        /\ Y_k.of.of.S.of.op = "spectral_conv"
                        /\ Y_k.of.of.B.op = "coupling"
                        /\ Y_k.of.of.R.op = "residual"

(* The steps of __init__ in the order of its statements *)
PhaseSteps ==
    {<<"idle", "boundaries">>, <<"boundaries", "laplacians">>,
     <<"laplacians", "eigen">>, <<"eigen", "betti">>, <<"betti", "ready">>,
     <<"boundaries", "failed">>, <<"eigen", "failed">>}

(* C24: construction runs boundary matrices, then Laplacians, then
   eigenpairs, then Betti numbers: a phase starts only when the phase before
   it has stored its result for every level and no later phase has stored
   anything, it computes from the stored results of the phases before it
   and leaves them as they are, and the complex is returned only after the
   Betti numbers, with every field present *)
C24_PhasesInOrder ==
    /\ [][pc' # pc => <<pc, pc'>> \in PhaseSteps]_vars
    /\ [](pc = "boundaries" =>
            /\ boundary_matrices = <<>> /\ hodge_laplacians = <<>>
            /\ eigendecompositions = <<>> /\ betti_numbers = <<>>)
    /\ [](pc = "laplacians" =>
            /\ Len(boundary_matrices) = max_k + 2
            /\ hodge_laplacians = <<>>
            /\ eigendecompositions = <<>> /\ betti_numbers = <<>>)
    /\ [](pc = "eigen" =>
            /\ Len(boundary_matrices) = max_k + 2
            /\ Len(hodge_laplacians) = max_k + 1
            /\ eigendecompositions = <<>> /\ betti_numbers = <<>>)
    /\ [](pc = "betti" =>
            /\ Len(boundary_matrices) = max_k + 2
            /\ Len(hodge_laplacians) = max_k + 1
            /\ Len(eigendecompositions) = max_k + 1
            /\ betti_numbers = <<>>)
    /\ [](Returned => Complete)
    /\ [][(pc = "laplacians" /\ pc' # pc) =>
            /\ hodge_laplacians' =
                   ComputeHodgeLaplaciansOf(boundary_matrices, n_simplices,
                                            max_k)
            /\ boundary_matrices' = boundary_matrices]_vars
    /\ [][(pc = "eigen" /\ pc' = "betti") =>
            /\ \A k \in 1..(max_k + 1) :
                  \E eigsh_fails \in BOOLEAN, order \in SolverOrders :
                      eigendecompositions'[k] =
                          Eigendecomposition(hodge_laplacians[k], max_modes,
                                             eigsh_fails, order, "ascending")
            /\ boundary_matrices' = boundary_matrices
            /\ hodge_laplacians' = hodge_laplacians]_vars
    /\ [][(pc = "betti" /\ pc' # pc) =>
            /\ betti_numbers' =
                   [k \in 1..(max_k + 1) |->
                       BettiNumber(eigendecompositions[k].Lambda)]
            /\ boundary_matrices' = boundary_matrices
            /\ hodge_laplacians' = hodge_laplacians
            /\ eigendecompositions' = eigendecompositions]_vars

(* C24 witness: a complex with three levels is returned, the four phases
   having each stored one entry per level *)
C24_Witness ==
    /\ Returned
    /\ max_k = 2
    /\ Complete
    /\ \A k \in 1..3 : N(k - 1) > 0

(* The entries of a list, and the list holding no entry twice *)
Entries(list) == {list[i] : i \in 1..Len(list)}

EachOnce(list) == Cardinality(Entries(list)) = Len(list)

(* Some column of edge_index joins u and v, in either direction *)
Listed(edge_index, u, v) ==
    \E c \in 1..Len(edge_index) :
        edge_index[c] = <<u, v>> \/ edge_index[c] = <<v, u>>

(* C27: from_graph passes to the constructor level 0 = the num_nodes
   vertices, level 1 = the unordered pairs u < v some column of edge_index
   joins, each once whatever the direction or repetition of the columns,
   and, when triangles are requested, level 2 = the triples u < v < w whose
   three edges are in level 1, each once (no level 2 otherwise) *)
C27_FromGraphLevels ==
    call.kind = "from_graph" =>
        LET nodes == 0..(call.num_nodes - 1)
            pairs == {<<u, v>> \in nodes \X nodes :
                        u < v /\ Listed(call.edge_index, u, v)}
            triples == {<<u, v, w>> \in nodes \X nodes \X nodes :
                          /\ u < v /\ v < w
                          /\ <<u, v>> \in Entries(simplices[2])
                          /\ <<u, w>> \in Entries(simplices[2])
                          /\ <<v, w>> \in Entries(simplices[2])}
        IN  /\ Len(simplices) = IF call.include_triangles THEN 3 ELSE 2
            /\ Entries(simplices[1]) = {<<i>> : i \in nodes}
            /\ EachOnce(simplices[1])
            /\ Entries(simplices[2]) = pairs
            /\ EachOnce(simplices[2])
            /\ call.include_triangles =>
                  /\ Entries(simplices[3]) = triples
                  /\ EachOnce(simplices[3])

(* C27 witness: every edge of a triangle is listed in both directions; the
   complex has its three edges once each and the one triangle *)
C27_Witness ==
    /\ call.kind = "from_graph"
    /\ call.include_triangles
    /\ Len(call.edge_index) = 6
    /\ Len(simplices[2]) = 3
    /\ simplices[3] = <<<<0, 1, 2>>>>

(* C28: a construction that has begun ends, returned or failed: eigsh never
   runs past its iteration cap, at the cap it raises and the level goes to
   np.linalg.eigh, and every level is left after finitely many steps *)
C28_ConstructionTerminates ==
    /\ [](op.kind = "decompose" => op.iter <= MaxIter)
    /\ [][(op.kind = "decompose" /\ op.stage = "eigsh"
            /\ op.iter = MaxIter /\ op' # op) =>
              (op'.stage = "eigh" /\ op'.eigsh_failed)]_vars
    /\ (pc # "idle") ~> Ended

(* C28 witness: eigsh used up its iterations at some level, the level was
   served by np.linalg.eigh, and the complex was returned *)
C28_Witness ==
    /\ Returned
    /\ \E k \in 1..(max_k + 1) :
          /\ solver_tier[k] = "fallback"
          /\ max_modes > 0
          /\ solver_calls[k] = <<[solver |-> "eigsh", ok |-> FALSE],
                                 [solver |-> "eigh", ok |-> TRUE]>>

(* The sum a computed level holds under its norm and activation, and under
   its dropout mask when the model is in training mode *)
SumOf(Y_k) ==
    IF Y_k.val.op = "dropout" THEN Y_k.val.of.of.of ELSE Y_k.val.of.of

(* C29: in every call of a layer that returns, the tensor returned at a
   non-empty level k is what the level computes from the list the layer was
   called on (the previous layer's outputs) and the generator: its spectral
   convolution and residual read the input at k, its coupling the input at
   k+1 and k-1, none of them a tensor the same call produced, so no level
   depends on the levels processed before it; the call leaves the complex
   as it was, so every layer reads the same complex *)
C29_LayerReadsItsInputs ==
    [][\A t \in Callers :
          (AtLayerCall(threads[t]) /\ threads'[t] # threads[t]
              /\ threads'[t].pc # "failed") =>
              LET th == threads[t]
                  X == LayerInput(th)
                  Y == LayerOutput(th, threads'[t])
              IN  /\ complex_vars' = complex_vars
                  /\ Len(Y) = Len(X)
                  /\ \A k \in 1..Len(X) :
                        X[k].shape[2] # 0 =>
                            /\ SumOf(Y[k]).S.of.X = X[k].val
                            /\ SumOf(Y[k]).R.X = X[k].val
                            /\ \/ SumOf(Y[k]).B.above = [op |-> "none"]
                               \/ /\ k < Len(X)
                                  /\ SumOf(Y[k]).B.above = X[k + 1].val
                            /\ \/ SumOf(Y[k]).B.below = [op |-> "none"]
                               \/ /\ k > 1
                                  /\ SumOf(Y[k]).B.below = X[k - 1].val
                            /\ \E r \in rng_state..rng_state' :
                                  Y[k] = SFNOLayerLevel(LayerId(th),
                                             model.hidden_dims,
                                             ModesOf(model), model.training,
                                             X, k - 1, r).out]_vars

(* C29 witness: the second main layer has returned; at level 1 its coupling
   read the level-0 tensor the first layer returned, and at level 0 the
   level-1 tensor the first layer returned *)
C29_Witness ==
    \E t \in Callers :
        /\ threads[t].pc = "output"
        /\ ~model.use_adelic
        /\ threads[t].l = 2
        /\ Len(threads[t].H) >= 2
        /\ threads[t].H[1].shape[2] # 0
        /\ threads[t].H[2].shape[2] # 0
        /\ SumOf(threads[t].H[2]).B.below.op \in {"activation", "dropout"}
        /\ SumOf(threads[t].H[1]).B.above.op \in {"activation", "dropout"}

(* The level-0 tensors the binding layer is given: the main stack's, then
   one per branch *)
FusedParts(H, branch_outputs) ==
    <<H[1]>> \o [i \in 1..Len(branch_outputs) |-> branch_outputs[i][1]]

(* C30: with adelic branches, no layer of a branch changes the list H of the
   main stack; the binding step replaces H[0] by the binding layer's
   projection, to the hidden width, of the concatenation of the main
   stack's level-0 tensor with the level-0 tensor of every branch, whose
   widths add up to (1 + number of branches) x hidden width, and leaves the
   levels k >= 1 as the main stack returned them; the output projections of
   those levels are taken of these tensors *)
C30_BindingFusesLevelZero ==
    [][\A t \in Callers :
          LET th == threads[t]
              th2 == threads'[t]
          IN  /\ (th.pc = "adelic" /\ th2.pc = "adelic") => th2.H = th.H
              /\ (th.pc = "adelic" /\ th2.pc = "output") =>
                    LET parts == FusedParts(th.H, th2.adelic_outputs)
                    IN  /\ Len(th2.adelic_outputs) = Len(model.primes)
                        /\ th2.H[1].val =
                               [op |-> "linear", name |-> "binding_layer",
                                index |-> 0,
                                of |-> [op |-> "cat",
                                        parts |-> [i \in 1..Len(parts) |->
                                                      parts[i].val]]]
                        /\ SumTo([i \in 1..Len(parts) |-> parts[i].shape[3]],
                                 Len(parts))
                             = (1 + Len(model.primes)) * model.hidden_dims[1]
                        /\ th2.H[1].shape[3] = model.hidden_dims[1]
                        /\ Len(th2.H) = Len(th.H)
                        /\ \A k \in 2..Len(th.H) : th2.H[k] = th.H[k]
              /\ (th.pc = "output" /\ th2.pc = "done" /\ model.use_adelic) =>
                    \A k \in 2..Len(th.H) :
                        LET o == IF model.tropical_mode
                                 THEN th2.outputs[k].val.of
                                 ELSE th2.outputs[k].val
                        IN  /\ o.name = "output_projs"
                            /\ o.of = th.H[k].val]_vars

(* C30 witness: a call on a model whose branches have a layer each has
   returned; the branches changed level 1 of their own lists, and the
   output at level 1 is the projection of the main stack's level-1 tensor *)
C30_Witness ==
    \E t \in Callers :
        /\ threads[t].pc = "done"
        /\ model.use_adelic
        /\ model.n_layers \div 2 > 0
        /\ Len(threads[t].H) >= 2
        /\ threads[t].H[1].val.name = "binding_layer"
        /\ Len(threads[t].H[1].val.of.parts) = 1 + Len(model.primes)
        /\ \A i \in 1..Len(model.primes) :
              threads[t].adelic_outputs[i][2] # threads[t].H[2]

====
